---- MODULE Spec2Model ----
(***************************************************************************)
(* Image upload servers (multi-article SQLite server, single-article       *)
(* SQLite server, Firestore server) over an object store (S3) and a        *)
(* metadata store, as state machines of their HTTP handlers.  Each await   *)
(* or database callback of a handler is one step, so that the handlers of  *)
(* concurrent requests interleave at the points where the code yields.     *)
(***************************************************************************)
EXTENDS Integers, Sequences, FiniteSets, TLC

\* ------------------------------------------------------------------ bounds

\* Concurrent HTTP requests the service model follows (one request per slot).
MaxCalls == 2
\* Longest string of a request field in the single-request model.
MaxStrLen == 3
\* Most elements of an articleIds array, each a string of at most MaxElemLen.
MaxArrLen == 2
MaxElemLen == 1

Calls == 1..MaxCalls

\* ----------------------------------------------------------------- strings

\* A string is a sequence of one-character strings.
Alphabet == {"a", "b", ",", " "}

StringsOver(alphabet, n) == UNION {[1..m -> alphabet] : m \in 0..n}

RECURSIVE TrimStart(_)
TrimStart(s) ==
    IF s # <<>> /\ Head(s) = " " THEN TrimStart(Tail(s)) ELSE s

RECURSIVE TrimEnd(_)
TrimEnd(s) ==
    IF s # <<>> /\ s[Len(s)] = " " THEN TrimEnd(SubSeq(s, 1, Len(s) - 1)) ELSE s

\* String.prototype.trim
Trim(s) == TrimEnd(TrimStart(s))

\* String.prototype.split(sep): the parts between the separators, empty parts kept.
RECURSIVE SplitFrom(_, _, _, _)
SplitFrom(s, sep, i, cur) ==
    IF i > Len(s) THEN <<cur>>
    ELSE IF s[i] = sep THEN <<cur>> \o SplitFrom(s, sep, i + 1, <<>>)
    ELSE SplitFrom(s, sep, i + 1, Append(cur, s[i]))

Split(s, sep) == SplitFrom(s, sep, 1, <<>>)

\* Array.prototype.filter, the predicate given as the set of values it keeps.
RECURSIVE FilterSeq(_, _)
FilterSeq(seq, keep) ==
    IF seq = <<>> THEN <<>>
    ELSE IF Head(seq) \in keep THEN <<Head(seq)>> \o FilterSeq(Tail(seq), keep)
    ELSE FilterSeq(Tail(seq), keep)

MapTrim(seq) == [i \in 1..Len(seq) |-> Trim(seq[i])]

Range(seq) == {seq[i] : i \in 1..Len(seq)}

\* ------------------------------------------------------------ request body

\* A multipart body field: absent, one string, an array of one or more strings
\* (the field repeated), or an object (the field given with nested keys).
Undef == [t |-> "undefined", s |-> <<>>, a |-> <<>>]
StrVal(s) == [t |-> "string", s |-> s, a |-> <<>>]
ArrVal(a) == [t |-> "array", s |-> <<>>, a |-> a]
ObjVal == [t |-> "object", s |-> <<>>, a |-> <<>>]

\* JavaScript truthiness of a body field.
Truthy(v) == v.t \in {"array", "object"} \/ (v.t = "string" /\ v.s # <<>>)

\* The uploaded file: absent, or a mimetype and the extension of its name.
NoFile == [present |-> FALSE, mimetype |-> "", ext |-> ""]
MimeTypes == {"image/png", "text/plain"}
Files ==
    {NoFile} \cup {[present |-> TRUE, mimetype |-> m, ext |-> ".png"] : m \in MimeTypes}

allowedTypes == {"image/jpeg", "image/jpg", "image/png", "image/gif"}

\* multer's fileFilter of the SQLite servers: a file of another type makes
\* multer pass an Error on, and the handler never runs.
FileFilterRejects(file) == file.present /\ file.mimetype \notin allowedTypes

\* The multer configuration of the Firestore server has no fileFilter.
FirestoreFilterRejects(file) == FALSE

\* articleIdList of the multi-article upload handler; "throws" when the code
\* raises a TypeError (articleId.trim on a value that is no string).
ArticleIdList(articleId, articleIds) ==
    IF Truthy(articleIds)
    THEN IF articleIds.t = "array"
         THEN [throws |-> FALSE,
               list |-> FilterSeq(articleIds.a,
                                  {e \in Range(articleIds.a) : e # <<>> /\ Trim(e) # <<>>})]
         ELSE IF articleIds.t = "string"
         THEN [throws |-> FALSE,
               list |-> FilterSeq(MapTrim(Split(articleIds.s, ",")),
                                  {e \in Range(MapTrim(Split(articleIds.s, ","))) : e # <<>>})]
         ELSE [throws |-> FALSE, list |-> <<>>]
    ELSE IF Truthy(articleId)
    THEN IF articleId.t = "string"
         THEN [throws |-> FALSE, list |-> <<Trim(articleId.s)>>]
         ELSE [throws |-> TRUE, list |-> <<>>]
    ELSE [throws |-> FALSE, list |-> <<>>]

\* The bodies of the multi-article upload requests of the service model.
MultiServiceBodies ==
    {[articleId |-> StrVal(<<"a">>), articleIds |-> Undef],
     [articleId |-> Undef, articleIds |-> StrVal(<<"a", ",", "b">>)],
     [articleId |-> Undef, articleIds |-> ArrVal(<<<<"b">>, <<" ">>>>)],
     [articleId |-> Undef, articleIds |-> Undef]}

\* Every body of a multi-article upload request within the bounds.  articleId
\* is read only when articleIds is falsy, so it varies only then.
MultiRequestBodies ==
    {[articleId |-> Undef, articleIds |-> ids] :
        ids \in {StrVal(s) : s \in StringsOver(Alphabet, MaxStrLen) \ {<<>>}}
                \cup {ArrVal(a) : a \in StringsOver(StringsOver(Alphabet, MaxElemLen), MaxArrLen) \ {<<>>}}
                \cup {ObjVal}}
    \cup {[articleId |-> id, articleIds |-> ids] :
        id \in {Undef, ArrVal(<<<<"a">>>>)} \cup {StrVal(s) : s \in StringsOver(Alphabet, MaxStrLen)},
        ids \in {Undef, StrVal(<<>>)}}

\* ------------------------------------------------------------------- state

VARIABLES
    variant,    \* which server runs: "multi", "single" or "firestore"
    s3,         \* the keys of the objects in the bucket
    articles,   \* the article_id values of the articles table
    images,     \* the rows of the images table, in insertion order
    products,   \* Firestore products collection: SAP -> [exists, imageid]
    calls,      \* the HTTP requests: per slot, the handler's position and locals
    batch       \* the batch upload client: its position, locals and report

server == <<variant, s3, articles, images, products, calls>>
vars == <<variant, s3, articles, images, products, calls, batch>>

NoUuid == <<0, 0>>
NoKey == [uuid |-> NoUuid, ext |-> ""]
NoPagination ==
    [currentPage |-> 0, totalPages |-> 0, totalImages |-> 0, imagesPerPage |-> 0,
     hasNextPage |-> FALSE, hasPrevPage |-> FALSE]
NoBody ==
    [error |-> "", s3Key |-> NoKey, uuid |-> NoUuid, insertedRecords |-> <<>>,
     updatedSaps |-> <<>>, notFoundSaps |-> <<>>, served |-> NoKey,
     message |-> "", s3DeletedCount |-> 0, s3Errors |-> {},
     images |-> <<>>, pagination |-> NoPagination]

ErrorBody(msg) == [NoBody EXCEPT !.error = msg]

\* uuidv4(): the n-th identifier request c draws; no two draws are equal.
uuidv4(c, n) == <<c, n>>

\* A request slot.  file is the request's file and parse what became of its
\* identifier input ("" while the handler has not looked at it); res holds the
\* outcome of each database statement the handler has issued and awaits.
\* The rest records what the handler has done: s3Calls, puts and dbCalls count
\* its calls to the object store (puts: the writes among them) and to the
\* metadata store; putOk: its object write has succeeded; early: it issued a
\* metadata call before that; objects, parents, rows, docs: the keys it has
\* written to the bucket, the article ids it has upserted, the image rows it
\* has inserted and the SAPs of the products it has updated.
\* Of a bulk purge: batchKeys, the Objects of its s3.deleteObjects call; s3Errors,
\* the keys of the Errors of the result; log, the calls it has made to the
\* stores, in order, each with its outcome once known; delRows and delParents,
\* the image rows and the article ids it has deleted; alone, no other request
\* was under way when it arrived.
\* Of a listing: page and limit, its parsed query, and total, the count it read.
\* Of an upload the batch client sent: client, the file and the position of the
\* SAP ID in its name.
IdleCall ==
    [kind |-> "none", pc |-> "idle", file |-> NoFile, parse |-> "",
     ids |-> <<>>, key |-> NoKey, target |-> NoUuid,
     res |-> <<>>, status |-> 0, body |-> NoBody,
     s3Calls |-> 0, puts |-> 0, putOk |-> FALSE, dbCalls |-> 0, early |-> FALSE,
     objects |-> {}, parents |-> {}, rows |-> {}, docs |-> {},
     batchKeys |-> <<>>, s3Errors |-> {}, log |-> <<>>, alone |-> FALSE,
     delRows |-> {}, delParents |-> {}, page |-> 0, limit |-> 0, total |-> 0,
     client |-> <<0, 0>>]

\* The SAP codes of the products collection.
ProductSaps == {1, 2}
NoImage == [exists |-> TRUE, imageid |-> NoUuid]
NoProduct == [exists |-> FALSE, imageid |-> NoUuid]

\* The batch client, not running.  started counts the upload calls it has
\* started, past holds the files whose uploads it has awaited to the last, each
\* with its SAP IDs and what its uploads resolved to, and summary tells that it
\* has printed the summary.
NoReport == [total |-> 0, successful |-> 0, failed |-> 0, skipped |-> 0, errors |-> <<>>]
BatchIdle ==
    [pc |-> "off", dir |-> <<>>, files |-> <<>>, f |-> 0, file |-> <<>>, sapIds |-> <<>>,
     uploads |-> <<>>, i |-> 0, concurrent |-> 0, skipErrors |-> FALSE, results |-> NoReport,
     started |-> 0, past |-> <<>>, summary |-> FALSE]

Init ==
    /\ batch = BatchIdle
    /\ variant \in {"multi", "single", "firestore"}
    /\ s3 = {}
    /\ articles = {}
    /\ images = <<>>
    /\ products \in [ProductSaps -> {NoImage, NoProduct}]
    /\ (variant # "firestore" => products = [p \in ProductSaps |-> NoProduct])
    /\ calls = [c \in Calls |-> IdleCall]

\* Slots are taken in order: slot c serves the c-th request to arrive.
Free(c) == calls[c].pc = "idle" /\ (IF c = 1 THEN TRUE ELSE calls[c - 1].pc # "idle")

Respond(call, status, body) ==
    IF call.status = 0 THEN [call EXCEPT !.status = status, !.body = body] ELSE call

Finish(call, status, body) == [Respond(call, status, body) EXCEPT !.pc = "done"]

AllSettled(res) == \A i \in 1..Len(res) : res[i] # "pending"
AllOk(res) == \A i \in 1..Len(res) : res[i] = "ok"
Pending(n) == [i \in 1..n |-> "pending"]

\* The handler issues n metadata writes.
IssueWrites(call, n) ==
    [call EXCEPT !.dbCalls = @ + n, !.early = @ \/ ~call.putOk, !.res = Pending(n)]

\* The bucket after s3.upload of key has resolved (ok) or rejected.
BucketAfterUpload(bucket, key, ok) == IF ok THEN bucket \cup {key} ELSE bucket

\* The handler's s3.upload has resolved: its object is in the bucket.
Stored(call) == [call EXCEPT !.putOk = TRUE, !.objects = @ \cup {call.key}]

\* The handler calls s3.upload for its key.
IssueUpload(call, ids, key) ==
    [call EXCEPT !.pc = "s3put", !.ids = ids, !.key = key,
                 !.s3Calls = @ + 1, !.puts = @ + 1]

\* --------------------------------------------- multi-article server: upload

\* A key named after the file alone, not after a fresh uuid.
S3Key_FromName(c, file) == [uuid |-> NoUuid, ext |-> file.ext]

\* s3Key = `${baseUuid}${fileExtension}`
S3Key(c, file) == [uuid |-> uuidv4(c, 0), ext |-> file.ext]

\* imageUuid = uuidv4(), drawn once per element of articleIdList.
ImageUuid(c, i) == uuidv4(c, i)

\* A row bound to a key of its own, named after the row's uuid.
ImageRow_OwnKey(uuid, articleId, key) ==
    [uuid |-> uuid, article_id |-> articleId, s3_key |-> [uuid |-> uuid, ext |-> key.ext]]

\* The values of one INSERT INTO images: the row's uuid, its article and the shared key.
ImageRow(uuid, articleId, key) == [uuid |-> uuid, article_id |-> articleId, s3_key |-> key]

Uuids == {images[i].uuid : i \in 1..Len(images)}

\* The handler up to its first await: the validation and the call of s3.upload.
MultiUploadHandler(call, c, file, body) ==
    LET parsed == ArticleIdList(body.articleId, body.articleIds)
    IN IF ~file.present
       THEN Finish(call, 400, ErrorBody("No file uploaded"))
       ELSE IF parsed.throws
       THEN Finish([call EXCEPT !.parse = "throws"], 500, ErrorBody("Failed to upload file"))
       ELSE IF Len(parsed.list) = 0
       THEN Finish([call EXCEPT !.parse = "ok"], 400,
                   ErrorBody("At least one Article ID is required"))
       ELSE IssueUpload([call EXCEPT !.parse = "ok"], parsed.list, S3Key(c, file))

\* POST /api/upload arrives: multer, then the handler.
MultiUploadStart(c, bodies) ==
    /\ variant = "multi"
    /\ Free(c)
    /\ \E file \in Files, body \in bodies :
        LET new == [calls[c] EXCEPT !.kind = "upload", !.file = file]
        IN calls' = [calls EXCEPT ![c] =
            IF FileFilterRejects(file)
            THEN Finish(new, 500, ErrorBody("Invalid file type"))
            ELSE MultiUploadHandler(new, c, file, body)]
    /\ UNCHANGED <<batch, variant, s3, articles, images, products>>

\* After s3.upload has resolved: the INSERT OR IGNORE statements are issued.
MultiAfterUpload(call) ==
    [IssueWrites(call, Len(call.ids)) EXCEPT !.pc = "upsert"]

\* An upload handler that goes on after s3.upload has rejected.
MultiUploadSettled_IgnoreError(call, ok) ==
    MultiAfterUpload(IF ok THEN Stored(call) ELSE call)

\* The await of s3.upload: on, or into the outer catch.
MultiUploadSettled(call, ok) ==
    IF ok THEN MultiAfterUpload(Stored(call))
    ELSE Finish(call, 500, ErrorBody("Failed to upload file"))

\* s3.upload resolves or rejects.
MultiUploadS3(c) ==
    /\ variant = "multi"
    /\ calls[c].kind = "upload" /\ calls[c].pc = "s3put"
    /\ \E ok \in BOOLEAN :
        /\ s3' = BucketAfterUpload(s3, calls[c].key, ok)
        /\ calls' = [calls EXCEPT ![c] = MultiUploadSettled(@, ok)]
    /\ UNCHANGED <<batch, variant, articles, images, products>>

\* After one INSERT OR IGNORE callback: Promise.all rejects on the first error
\* (the outer catch answers 500) and resolves when all have succeeded, and then
\* the image INSERT statements are issued.
MultiAfterUpsert(call) ==
    IF ~AllSettled(call.res) THEN call
    ELSE IF AllOk(call.res)
    THEN [IssueWrites(call, Len(call.ids)) EXCEPT !.pc = "insert"]
    ELSE [call EXCEPT !.pc = "done"]

\* The callback of one INSERT OR IGNORE INTO articles.
MultiUpsert(c) ==
    /\ variant = "multi"
    /\ calls[c].kind = "upload" /\ calls[c].pc = "upsert"
    /\ \E i \in 1..Len(calls[c].ids), ok \in BOOLEAN :
        /\ calls[c].res[i] = "pending"
        /\ articles' = IF ok THEN articles \cup {calls[c].ids[i]} ELSE articles
        /\ LET settled == [calls[c] EXCEPT !.res[i] = IF ok THEN "ok" ELSE "fail",
                                            !.parents = IF ok THEN @ \cup {calls[c].ids[i]} ELSE @]
               answered == IF ok THEN settled
                           ELSE Respond(settled, 500, ErrorBody("Failed to upload file"))
           IN calls' = [calls EXCEPT ![c] = MultiAfterUpsert(answered)]
    /\ UNCHANGED <<batch, variant, s3, images, products>>

\* insertedRecords: one {articleId, uuid} per element of articleIdList, in order.
InsertedRecords(c, ids) ==
    [i \in 1..Len(ids) |-> [articleId |-> ids[i], uuid |-> ImageUuid(c, i)]]

\* The response once Promise.all(imagePromises) has resolved.
MultiUploadResponse(c, call) ==
    [NoBody EXCEPT !.s3Key = call.key, !.insertedRecords = InsertedRecords(c, call.ids)]

\* After one image INSERT callback: Promise.all rejects on the first error (the
\* inner catch answers 500) and resolves when all have succeeded.
MultiAfterInsert(c, call) ==
    IF ~AllSettled(call.res) THEN call
    ELSE IF AllOk(call.res) THEN Finish(call, 200, MultiUploadResponse(c, call))
    ELSE [call EXCEPT !.pc = "done"]

\* A failed INSERT that takes back the rows of its upload inserted before.
RowsAfterInsert_Rollback(rows, row, ok) ==
    IF ok THEN Append(rows, row) ELSE SelectSeq(rows, LAMBDA r : r.s3_key # row.s3_key)

\* The images table after one INSERT INTO images has succeeded (ok) or failed;
\* the handler issues no other statement on the table, whatever the outcome.
RowsAfterInsert(rows, row, ok) == IF ok THEN Append(rows, row) ELSE rows

\* The callback of one INSERT INTO images; uuid is UNIQUE.
MultiInsert(c) ==
    /\ variant = "multi"
    /\ calls[c].kind = "upload" /\ calls[c].pc = "insert"
    /\ \E i \in 1..Len(calls[c].ids), accepted \in BOOLEAN :
        LET row == ImageRow(ImageUuid(c, i), calls[c].ids[i], calls[c].key)
            ok == accepted /\ row.uuid \notin Uuids
            settled == [calls[c] EXCEPT !.res[i] = IF ok THEN "ok" ELSE "fail",
                                         !.rows = IF ok THEN @ \cup {row} ELSE @]
            answered == IF ok THEN settled
                        ELSE Respond(settled, 500, ErrorBody("Failed to save image metadata"))
        IN /\ calls[c].res[i] = "pending"
           /\ images' = RowsAfterInsert(images, row, ok)
           /\ calls' = [calls EXCEPT ![c] = MultiAfterInsert(c, answered)]
    /\ UNCHANGED <<batch, variant, s3, articles, products>>

\* -------------------------------------------- single-article server: upload

\* The bodies of the single-article upload requests: articleId absent or a string.
SingleServiceBodies ==
    {[articleId |-> StrVal(<<"a">>)], [articleId |-> StrVal(<<"b">>)], [articleId |-> Undef]}

SingleRequestBodies ==
    {[articleId |-> id] : id \in {Undef} \cup {StrVal(s) : s \in StringsOver(Alphabet, MaxStrLen)}}

\* imageUuid = uuidv4(), drawn once: the key's name and the row's uuid.
SingleImageUuid(c) == uuidv4(c, 0)

SingleS3Key(c, file) == [uuid |-> SingleImageUuid(c), ext |-> file.ext]

\* The handler up to its first await.
SingleUploadHandler(call, c, file, body) ==
    IF ~file.present
    THEN Finish(call, 400, ErrorBody("No file uploaded"))
    ELSE IF ~Truthy(body.articleId)
    THEN Finish([call EXCEPT !.parse = "none"], 400, ErrorBody("Article ID is required"))
    ELSE IssueUpload([call EXCEPT !.parse = "ok"], <<body.articleId.s>>, SingleS3Key(c, file))

SingleUploadStart(c, bodies) ==
    /\ variant = "single"
    /\ Free(c)
    /\ \E file \in Files, body \in bodies :
        LET new == [calls[c] EXCEPT !.kind = "upload", !.file = file]
        IN calls' = [calls EXCEPT ![c] =
            IF FileFilterRejects(file)
            THEN Finish(new, 500, ErrorBody("Invalid file type"))
            ELSE SingleUploadHandler(new, c, file, body)]
    /\ UNCHANGED <<batch, variant, s3, articles, images, products>>

\* After s3.upload has resolved: db.run of the INSERT OR IGNORE (res[1]) and
\* db.run of the image INSERT (res[2]) are both issued.
SingleAfterUpload(call) ==
    [IssueWrites(call, 2) EXCEPT !.pc = "dbwrite"]

\* An upload handler that goes on after s3.upload has rejected.
SingleUploadSettled_IgnoreError(call, ok) ==
    SingleAfterUpload(IF ok THEN Stored(call) ELSE call)

\* The await of s3.upload: on, or into the catch.
SingleUploadSettled(call, ok) ==
    IF ok THEN SingleAfterUpload(Stored(call))
    ELSE Finish(call, 500, ErrorBody("Failed to upload file"))

SingleUploadS3(c) ==
    /\ variant = "single"
    /\ calls[c].kind = "upload" /\ calls[c].pc = "s3put"
    /\ \E ok \in BOOLEAN :
        /\ s3' = BucketAfterUpload(s3, calls[c].key, ok)
        /\ calls' = [calls EXCEPT ![c] = SingleUploadSettled(@, ok)]
    /\ UNCHANGED <<batch, variant, articles, images, products>>

SingleSettle(call) == IF AllSettled(call.res) THEN [call EXCEPT !.pc = "done"] ELSE call

\* The INSERT OR IGNORE INTO articles runs; it has no callback, its error is dropped.
SingleUpsert(c) ==
    /\ variant = "single"
    /\ calls[c].kind = "upload" /\ calls[c].pc = "dbwrite"
    /\ calls[c].res[1] = "pending"
    /\ \E ok \in BOOLEAN :
        /\ articles' = IF ok THEN articles \cup {calls[c].ids[1]} ELSE articles
        /\ calls' = [calls EXCEPT ![c] =
                SingleSettle([@ EXCEPT !.res[1] = IF ok THEN "ok" ELSE "fail",
                                       !.parents = IF ok THEN @ \cup {calls[c].ids[1]} ELSE @])]
    /\ UNCHANGED <<batch, variant, s3, images, products>>

SingleUploadResponse(c, call) ==
    [NoBody EXCEPT !.s3Key = call.key, !.uuid = SingleImageUuid(c)]

\* The callback of the INSERT INTO images.
SingleInsert(c) ==
    /\ variant = "single"
    /\ calls[c].kind = "upload" /\ calls[c].pc = "dbwrite"
    /\ calls[c].res[2] = "pending"
    /\ \E accepted \in BOOLEAN :
        LET row == ImageRow(SingleImageUuid(c), calls[c].ids[1], calls[c].key)
            ok == accepted /\ row.uuid \notin Uuids
            settled == [calls[c] EXCEPT !.res[2] = IF ok THEN "ok" ELSE "fail",
                                         !.rows = IF ok THEN @ \cup {row} ELSE @]
        IN /\ images' = RowsAfterInsert(images, row, ok)
           /\ calls' = [calls EXCEPT ![c] = SingleSettle(
                  IF ok THEN Respond(settled, 200, SingleUploadResponse(c, settled))
                  ELSE Respond(settled, 500, ErrorBody("Failed to save image metadata")))]
    /\ UNCHANGED <<batch, variant, s3, articles, products>>

\* --------------------------------------- SQLite servers: DELETE /api/image/:uuid

RECURSIVE RowsWithout(_, _)
RowsWithout(rows, uuid) ==
    IF rows = <<>> THEN <<>>
    ELSE IF Head(rows).uuid = uuid THEN RowsWithout(Tail(rows), uuid)
    ELSE <<Head(rows)>> \o RowsWithout(Tail(rows), uuid)

\* SELECT ... FROM images WHERE uuid = ?
RowOf(uuid) == CHOOSE r \in Range(images) : r.uuid = uuid

\* The uuid of a request path: one of the rows' or one no row has.
Targets == Uuids \cup {NoUuid}

\* The request arrives and db.get calls back: 404 without a row, else
\* s3.deleteObject is called for the row's key.
DeleteStart(c) ==
    /\ variant \in {"multi", "single"}
    /\ Free(c)
    /\ \E uuid \in Targets, ok \in BOOLEAN :
        LET new == [calls[c] EXCEPT !.kind = "delete", !.target = uuid, !.dbCalls = @ + 1]
        IN calls' = [calls EXCEPT ![c] =
            IF ~ok THEN Finish(new, 500, ErrorBody("Failed to find image"))
            ELSE IF uuid \notin Uuids THEN Finish(new, 404, ErrorBody("Image not found"))
            ELSE [new EXCEPT !.pc = "s3del", !.key = RowOf(uuid).s3_key, !.s3Calls = @ + 1]]
    /\ UNCHANGED <<batch, variant, s3, articles, images, products>>

\* A handler that issues the DELETE also after s3.deleteObject has rejected.
DeleteS3_DeleteAnyway(c) ==
    /\ calls[c].kind = "delete" /\ calls[c].pc = "s3del"
    /\ \E ok \in BOOLEAN :
        /\ s3' = IF ok THEN s3 \ {calls[c].key} ELSE s3
        /\ calls' = [calls EXCEPT ![c] = [@ EXCEPT !.pc = "dbdel", !.dbCalls = @ + 1]]
    /\ UNCHANGED <<batch, variant, articles, images, products>>

\* s3.deleteObject resolves (then db.run of the DELETE is issued) or rejects.
DeleteS3(c) ==
    /\ calls[c].kind = "delete" /\ calls[c].pc = "s3del"
    /\ \E ok \in BOOLEAN :
        IF ok
        THEN /\ s3' = s3 \ {calls[c].key}
             /\ calls' = [calls EXCEPT ![c] = [@ EXCEPT !.pc = "dbdel", !.dbCalls = @ + 1]]
        ELSE /\ s3' = s3
             /\ calls' = [calls EXCEPT ![c] =
                    Finish(@, 500, ErrorBody("Failed to delete file from S3"))]
    /\ UNCHANGED <<batch, variant, articles, images, products>>

\* The callback of DELETE FROM images WHERE uuid = ?
DeleteDb(c) ==
    /\ calls[c].kind = "delete" /\ calls[c].pc = "dbdel"
    /\ \E ok \in BOOLEAN :
        IF ok
        THEN /\ images' = RowsWithout(images, calls[c].target)
             /\ calls' = [calls EXCEPT ![c] =
                    Finish(@, 200, [NoBody EXCEPT !.uuid = calls[c].target])]
        ELSE /\ images' = images
             /\ calls' = [calls EXCEPT ![c] =
                    Finish(@, 500, ErrorBody("Failed to delete image record"))]
    /\ UNCHANGED <<batch, variant, s3, articles, products>>

\* ------------------------------ multi-article server: GET /api/serve-image/:uuid

\* A handler that asks the bucket also when db.get has found no row.
ServeStart_FetchAnyway(c) ==
    /\ variant = "multi"
    /\ Free(c)
    /\ \E uuid \in Targets, ok \in BOOLEAN :
        LET new == [calls[c] EXCEPT !.kind = "serve", !.target = uuid, !.dbCalls = @ + 1]
        IN calls' = [calls EXCEPT ![c] =
            IF ~ok THEN Finish(new, 500, ErrorBody("Failed to fetch image"))
            ELSE [new EXCEPT !.pc = "s3get", !.s3Calls = @ + 1,
                             !.key = IF uuid \in Uuids THEN RowOf(uuid).s3_key ELSE NoKey]]
    /\ UNCHANGED <<batch, variant, s3, articles, images, products>>

\* The request arrives and db.get calls back: 404 without a row, else
\* s3.getObject is called for the row's key.
ServeStart(c) ==
    /\ variant = "multi"
    /\ Free(c)
    /\ \E uuid \in Targets, ok \in BOOLEAN :
        LET new == [calls[c] EXCEPT !.kind = "serve", !.target = uuid, !.dbCalls = @ + 1]
        IN calls' = [calls EXCEPT ![c] =
            IF ~ok THEN Finish(new, 500, ErrorBody("Failed to fetch image"))
            ELSE IF uuid \notin Uuids THEN Finish(new, 404, ErrorBody("Image not found"))
            ELSE [new EXCEPT !.pc = "s3get", !.key = RowOf(uuid).s3_key, !.s3Calls = @ + 1]]
    /\ UNCHANGED <<batch, variant, s3, articles, images, products>>

\* s3.getObject resolves with the object, or rejects (no such key, or the store fails).
ServeS3(c) ==
    /\ calls[c].kind = "serve" /\ calls[c].pc = "s3get"
    /\ \E reachable \in BOOLEAN :
        calls' = [calls EXCEPT ![c] =
            IF reachable /\ calls[c].key \in s3
            THEN Finish(@, 200, [NoBody EXCEPT !.served = calls[c].key])
            ELSE Finish(@, 500, ErrorBody("Failed to retrieve image from storage"))]
    /\ UNCHANGED <<batch, variant, s3, articles, images, products>>

\* ------------------------------------ SQLite servers: GET /api/image/:uuid

\* The request arrives and db.get calls back: 404 without a row, else the
\* handler signs a URL for the row's key, which makes no request to the
\* bucket, and answers with the row; signing may throw.
ImageGet(c) ==
    /\ variant \in {"multi", "single"}
    /\ Free(c)
    /\ \E uuid \in Targets, ok \in BOOLEAN, signed \in BOOLEAN :
        LET new == [calls[c] EXCEPT !.kind = "image", !.target = uuid, !.dbCalls = @ + 1]
        IN calls' = [calls EXCEPT ![c] =
            IF ~ok THEN Finish(new, 500, ErrorBody("Failed to fetch image"))
            ELSE IF uuid \notin Uuids THEN Finish(new, 404, ErrorBody("Image not found"))
            ELSE IF ~signed
            THEN Finish([new EXCEPT !.key = RowOf(uuid).s3_key], 500,
                        ErrorBody("Failed to generate signed URL"))
            ELSE Finish([new EXCEPT !.key = RowOf(uuid).s3_key], 200,
                        [NoBody EXCEPT !.uuid = uuid, !.s3Key = RowOf(uuid).s3_key])]
    /\ UNCHANGED <<batch, variant, s3, articles, images, products>>

\* ------------------------------ multi-article server: DELETE /api/images/all

\* Delete.Objects: rows.map(row => ({ Key: row.s3_key })), one entry per row.
PurgeKeys(rows) == [i \in 1..Len(rows) |-> rows[i].s3_key]

\* A step of the purge: a call to a store and what came of it.
Step(op, outcome) == [op |-> op, outcome |-> outcome]

\* The log, the outcome of its last call now known.
Settle(log, outcome) == [log EXCEPT ![Len(log)].outcome = outcome]

\* s3DeletedCount: deleteResult.Deleted.length, the entries without an error.
DeletedCount(keys, errors) == Cardinality({i \in 1..Len(keys) : keys[i] \notin errors})

\* The request arrives and db.all calls back: without a row the answer is 200
\* at once, else s3.deleteObjects is called with the keys of all rows.
PurgeStart(c) ==
    /\ variant = "multi"
    /\ Free(c)
    /\ \E ok \in BOOLEAN :
        LET new == [calls[c] EXCEPT !.kind = "purge", !.dbCalls = @ + 1,
                        !.alone = \A d \in Calls \ {c} : calls[d].pc \in {"idle", "done"}]
        IN calls' = [calls EXCEPT ![c] =
            IF ~ok THEN Finish(new, 500, ErrorBody("Failed to fetch images from database"))
            ELSE IF Len(images) = 0
            THEN Finish(new, 200, [NoBody EXCEPT !.message = "No images found to delete"])
            ELSE [new EXCEPT !.pc = "s3purge", !.batchKeys = PurgeKeys(images),
                             !.s3Calls = @ + 1,
                             !.log = Append(@, Step("deleteObjects", "pending"))]]
    /\ UNCHANGED <<batch, variant, s3, articles, images, products>>

\* A handler that takes Errors in the result of s3.deleteObjects for a failure.
PurgeAfterS3_AbortOnErrors(call, resolved, errors) ==
    IF resolved /\ errors = {}
    THEN [call EXCEPT !.pc = "dbpurge", !.s3Errors = errors, !.dbCalls = @ + 1,
                      !.log = Append(Settle(@, "ok"), Step("deleteImages", "pending"))]
    ELSE Finish([call EXCEPT !.s3Errors = errors, !.log = Settle(@, "fail")], 500,
                ErrorBody("Failed to delete images from S3"))

\* What the handler does after s3.deleteObjects: rejected, the catch answers
\* 500; resolved, with whatever Errors, db.run of DELETE FROM images is issued.
PurgeAfterS3(call, resolved, errors) ==
    IF resolved
    THEN [call EXCEPT !.pc = "dbpurge", !.s3Errors = errors, !.dbCalls = @ + 1,
                      !.log = Append(Settle(@, "ok"), Step("deleteImages", "pending"))]
    ELSE Finish([call EXCEPT !.log = Settle(@, "fail")], 500,
                ErrorBody("Failed to delete images from S3"))

\* s3.deleteObjects rejects, or resolves: each key is deleted or comes back in Errors.
PurgeS3(c) ==
    /\ calls[c].kind = "purge" /\ calls[c].pc = "s3purge"
    /\ \E resolved \in BOOLEAN, errors \in SUBSET Range(calls[c].batchKeys) :
        /\ ~resolved => errors = {}
        /\ s3' = IF resolved THEN s3 \ (Range(calls[c].batchKeys) \ errors) ELSE s3
        /\ calls' = [calls EXCEPT ![c] = PurgeAfterS3(@, resolved, errors)]
    /\ UNCHANGED <<batch, variant, articles, images, products>>

\* The callback of DELETE FROM images: on an error 500, else the cleanup of
\* the articles is issued.
PurgeImages(c) ==
    /\ calls[c].kind = "purge" /\ calls[c].pc = "dbpurge"
    /\ \E ok \in BOOLEAN :
        IF ok
        THEN /\ images' = <<>>
             /\ calls' = [calls EXCEPT ![c] =
                    [@ EXCEPT !.pc = "cleanup", !.dbCalls = @ + 1,
                              !.delRows = @ \cup Range(images),
                              !.log = Append(Settle(@, "ok"), Step("deleteArticles", "pending"))]]
        ELSE /\ images' = images
             /\ calls' = [calls EXCEPT ![c] =
                    Finish([@ EXCEPT !.log = Settle(@, "fail")], 500,
                           [ErrorBody("S3 cleanup successful but database cleanup failed")
                               EXCEPT !.s3DeletedCount =
                                          DeletedCount(calls[c].batchKeys, calls[c].s3Errors),
                                      !.s3Errors = calls[c].s3Errors])]
    /\ UNCHANGED <<batch, variant, s3, articles, products>>

\* DELETE FROM articles WHERE article_id NOT IN (SELECT DISTINCT article_id FROM images)
Orphans(parents, rows) == {a \in parents : a \notin {rows[i].article_id : i \in 1..Len(rows)}}

\* The response of the cleanup callback; the callback's error is only logged.
PurgeResponse(call) ==
    [NoBody EXCEPT !.message = "All images deleted successfully",
                   !.s3DeletedCount = DeletedCount(call.batchKeys, call.s3Errors),
                   !.s3Errors = call.s3Errors]

\* The callback of the cleanup of the articles.
PurgeArticles(c) ==
    /\ calls[c].kind = "purge" /\ calls[c].pc = "cleanup"
    /\ \E ok \in BOOLEAN :
        LET gone == IF ok THEN Orphans(articles, images) ELSE {}
        IN /\ articles' = articles \ gone
           /\ calls' = [calls EXCEPT ![c] =
                  Finish([@ EXCEPT !.delParents = @ \cup gone,
                                   !.log = Settle(@, IF ok THEN "ok" ELSE "fail")],
                         200, PurgeResponse(calls[c]))]
    /\ UNCHANGED <<batch, variant, s3, images, products>>

\* ------------------------------------------------ Firestore server: upload

\* The characters of a saps field and of a sap path parameter.
JsonAlphabet == {"[", "]", ",", "1", "2"}
SapAlphabet == {"1", "2", "x"}

Digits == {"0", "1", "2", "3", "4", "5", "6", "7", "8", "9"}
DigitValue(ch) ==
    CASE ch = "0" -> 0 [] ch = "1" -> 1 [] ch = "2" -> 2 [] ch = "3" -> 3 [] ch = "4" -> 4
      [] ch = "5" -> 5 [] ch = "6" -> 6 [] ch = "7" -> 7 [] ch = "8" -> 8 [] ch = "9" -> 9

\* parseInt of a value that is no number.
NaN == -1

\* A parsed JSON value: a number or an array of values.
JsonNum(n) == [t |-> "num", n |-> n, a |-> <<>>]
JsonArr(a) == [t |-> "arr", n |-> 0, a |-> a]
ParseError == [ok |-> FALSE, v |-> JsonNum(0), next |-> 0]

\* The digits of s from position i on: their value and the position after them.
RECURSIVE ParseDigits(_, _, _)
ParseDigits(s, i, acc) ==
    IF i <= Len(s) /\ s[i] \in Digits
    THEN ParseDigits(s, i + 1, acc * 10 + DigitValue(s[i]))
    ELSE [ok |-> TRUE, v |-> JsonNum(acc), next |-> i]

\* JSON value at position i of s; JsonElements parses the elements of an array
\* after its "[" or after a ",", acc the elements before.
RECURSIVE JsonValue(_, _)
RECURSIVE JsonElements(_, _, _)
JsonValue(s, i) ==
    IF i > Len(s) THEN ParseError
    ELSE IF s[i] \in Digits THEN ParseDigits(s, i, 0)
    ELSE IF s[i] = "["
    THEN IF i + 1 <= Len(s) /\ s[i + 1] = "]"
         THEN [ok |-> TRUE, v |-> JsonArr(<<>>), next |-> i + 2]
         ELSE JsonElements(s, i + 1, <<>>)
    ELSE ParseError

JsonElements(s, i, acc) ==
    LET e == JsonValue(s, i)
    IN IF ~e.ok \/ e.next > Len(s) THEN ParseError
       ELSE IF s[e.next] = "]"
       THEN [ok |-> TRUE, v |-> JsonArr(Append(acc, e.v)), next |-> e.next + 1]
       ELSE IF s[e.next] = ","
       THEN JsonElements(s, e.next + 1, Append(acc, e.v))
       ELSE ParseError

\* JSON.parse(text): the value, or ok = FALSE where it throws a SyntaxError.
JsonParse(s) ==
    LET r == JsonValue(s, 1)
    IN IF r.ok /\ r.next = Len(s) + 1 THEN r ELSE ParseError

\* parseInt of a parsed JSON value: the number itself; of an array, parseInt of
\* its string, the elements joined by commas, so of its first element.
RECURSIVE ParseIntJson(_)
ParseIntJson(v) ==
    IF v.t = "num" THEN v.n
    ELSE IF v.a = <<>> THEN NaN
    ELSE ParseIntJson(v.a[1])

\* parseInt of a string: the number its leading digits spell, NaN without any.
ParseIntStr(s) ==
    IF s # <<>> /\ s[1] \in Digits THEN ParseDigits(s, 1, 0).v.n ELSE NaN

\* sapIds of the upload handler: "invalid" where JSON.parse throws, "none"
\* where neither saps nor sap is given.
SapIds(sap, saps) ==
    IF Truthy(saps)
    THEN IF saps.t = "string"
         THEN LET parsed == JsonParse(saps.s)
              IN IF ~parsed.ok THEN [outcome |-> "invalid", list |-> <<>>]
                 ELSE IF parsed.v.t = "arr"
                 THEN [outcome |-> "ok",
                       list |-> [i \in 1..Len(parsed.v.a) |-> ParseIntJson(parsed.v.a[i])]]
                 ELSE [outcome |-> "ok", list |-> <<>>]
         ELSE IF saps.t = "array"
         THEN [outcome |-> "ok", list |-> [i \in 1..Len(saps.a) |-> ParseIntStr(saps.a[i])]]
         ELSE [outcome |-> "ok", list |-> <<>>]
    ELSE IF Truthy(sap)
    THEN [outcome |-> "ok", list |-> <<ParseIntStr(sap.s)>>]
    ELSE [outcome |-> "none", list |-> <<>>]

\* The upload requests of the service model: the sap path parameter and the
\* saps body field.
FirestoreServiceBodies ==
    {[sap |-> StrVal(<<"1">>), saps |-> Undef],
     [sap |-> Undef, saps |-> StrVal(<<"[", "1", ",", "2", "]">>)],
     [sap |-> Undef, saps |-> Undef]}

\* Every upload request within the bounds.  sap is read only when saps is falsy.
FirestoreRequestBodies ==
    {[sap |-> Undef, saps |-> ids] :
        ids \in {StrVal(s) : s \in StringsOver(JsonAlphabet, MaxStrLen) \ {<<>>}}
                \cup {ArrVal(a) : a \in StringsOver(StringsOver(SapAlphabet, MaxElemLen), MaxArrLen) \ {<<>>}}
                \cup {ObjVal}}
    \cup {[sap |-> id, saps |-> ids] :
        id \in {Undef} \cup {StrVal(s) : s \in StringsOver(SapAlphabet, MaxStrLen) \ {<<>>}},
        ids \in {Undef, StrVal(<<>>)}}

\* imageId = uuidv4(); fileName = `${imageId}.${fileExtension}`
ImageId(c) == uuidv4(c, 0)

FirestoreS3Key(c, file) == [uuid |-> ImageId(c), ext |-> file.ext]

\* The handler up to its first await.
FirestoreUploadHandler(call, c, file, body) ==
    LET parsed == SapIds(body.sap, body.saps)
    IN IF ~file.present
       THEN Finish(call, 400, ErrorBody("No image file provided"))
       ELSE IF parsed.outcome = "invalid"
       THEN Finish([call EXCEPT !.parse = "invalid"], 400, ErrorBody("Invalid SAPs format"))
       ELSE IF parsed.outcome = "none"
       THEN Finish([call EXCEPT !.parse = "none"], 400, ErrorBody("No SAP ID(s) provided"))
       ELSE IssueUpload([call EXCEPT !.parse = "ok"], parsed.list, FirestoreS3Key(c, file))

\* POST /upload-image/:sap? arrives: multer, then the handler.
FirestoreUploadStart(c, bodies) ==
    /\ variant = "firestore"
    /\ Free(c)
    /\ \E file \in Files, body \in bodies :
        LET new == [calls[c] EXCEPT !.kind = "upload", !.file = file]
        IN calls' = [calls EXCEPT ![c] =
            IF FirestoreFilterRejects(file)
            THEN Finish(new, 500, ErrorBody("Invalid file type"))
            ELSE FirestoreUploadHandler(new, c, file, body)]
    /\ UNCHANGED <<batch, variant, s3, articles, images, products>>

\* updatedSaps / notFoundSaps: the SAP IDs settled so far with that outcome, in order.
SapsWith(call, outcome) ==
    FilterSeq(call.ids, {call.ids[i] : i \in {j \in 1..Len(call.ids) : call.res[j] = outcome}})

FirestoreUploadResponse(c, call) ==
    [NoBody EXCEPT !.uuid = ImageId(c), !.updatedSaps = SapsWith(call, "ok"),
                   !.notFoundSaps = SapsWith(call, "notfound")]

\* The loop over sapIds: it ends with the 200 response.
FirestoreLoop(c, call) ==
    IF AllSettled(call.res) THEN Finish(call, 200, FirestoreUploadResponse(c, call))
    ELSE [call EXCEPT !.pc = "update"]

\* The await of s3.upload: on to the loop, or into the catch.
FirestoreUploadSettled(c, call, ok) ==
    IF ok THEN FirestoreLoop(c, [Stored(call) EXCEPT !.res = Pending(Len(call.ids))])
    ELSE Finish(call, 500, ErrorBody("Internal server error"))

\* s3.upload resolves or rejects.
FirestoreUploadS3(c) ==
    /\ variant = "firestore"
    /\ calls[c].kind = "upload" /\ calls[c].pc = "s3put"
    /\ \E ok \in BOOLEAN :
        /\ s3' = BucketAfterUpload(s3, calls[c].key, ok)
        /\ calls' = [calls EXCEPT ![c] = FirestoreUploadSettled(c, @, ok)]
    /\ UNCHANGED <<batch, variant, articles, images, products>>

ProductExists(sapId) == sapId \in DOMAIN products /\ products[sapId].exists

\* One pass of the loop: getDocs for the next SAP ID, and updateDoc of the
\* product found; either call may reject, which the catch answers with 500.
FirestoreUpdate(c) ==
    /\ variant = "firestore"
    /\ calls[c].kind = "upload" /\ calls[c].pc = "update"
    /\ \E queried \in BOOLEAN, updated \in BOOLEAN :
        LET call == calls[c]
            i == CHOOSE j \in 1..Len(call.res) :
                    call.res[j] = "pending" /\ \A k \in 1..(j - 1) : call.res[k] # "pending"
            sapId == call.ids[i]
            asked == [call EXCEPT !.dbCalls = @ + 1, !.early = @ \/ ~call.putOk]
            wrote == [asked EXCEPT !.dbCalls = @ + 1]
        IN IF ~queried
           THEN /\ products' = products
                /\ calls' = [calls EXCEPT ![c] =
                       Finish(asked, 500, ErrorBody("Internal server error"))]
           ELSE IF ~ProductExists(sapId)
           THEN /\ products' = products
                /\ calls' = [calls EXCEPT ![c] =
                       FirestoreLoop(c, [asked EXCEPT !.res[i] = "notfound"])]
           ELSE IF updated
           THEN /\ products' = [products EXCEPT ![sapId].imageid = ImageId(c)]
                /\ calls' = [calls EXCEPT ![c] =
                       FirestoreLoop(c, [wrote EXCEPT !.res[i] = "ok", !.docs = @ \cup {sapId}])]
           ELSE /\ products' = products
                /\ calls' = [calls EXCEPT ![c] =
                       Finish(wrote, 500, ErrorBody("Internal server error"))]
    /\ UNCHANGED <<batch, variant, s3, articles, images>>

\* ------------------------ Firestore server: GET /product/:sap/image, /serve-image

\* The :sap path parameters of the product requests.
SapParams == {<<"1">>, <<"2">>, <<"x">>}

\* GET /product/:sap/image arrives and getDocs resolves or rejects: 404 without
\* a product of that SAP or without its imageid, else the product's imageId.
ProductImage(c) ==
    /\ variant = "firestore"
    /\ Free(c)
    /\ \E sap \in SapParams, queried \in BOOLEAN :
        LET sapId == ParseIntStr(sap)
            new == [calls[c] EXCEPT !.kind = "product", !.ids = <<sapId>>, !.dbCalls = @ + 1]
        IN calls' = [calls EXCEPT ![c] =
            IF ~queried THEN Finish(new, 500, ErrorBody("Internal server error"))
            ELSE IF ~ProductExists(sapId)
            THEN Finish(new, 404, ErrorBody("Product not found with given SAP"))
            ELSE IF products[sapId].imageid = NoUuid
            THEN Finish(new, 404, ErrorBody("No image associated with this product"))
            ELSE Finish(new, 200, [NoBody EXCEPT !.uuid = products[sapId].imageid])]
    /\ UNCHANGED <<batch, variant, s3, articles, images, products>>

\* The :imageId path parameters: the ids of the uploads, and one of no upload.
ImageIds == {ImageId(c) : c \in Calls} \cup {<<0, 1>>}

\* GET /serve-image/:imageId arrives and getDocs resolves or rejects: 404 where
\* no product holds the imageId, else the handler lists the bucket.
FirestoreServeStart(c) ==
    /\ variant = "firestore"
    /\ Free(c)
    /\ \E imageId \in ImageIds, queried \in BOOLEAN :
        LET new == [calls[c] EXCEPT !.kind = "serve", !.target = imageId, !.dbCalls = @ + 1]
        IN calls' = [calls EXCEPT ![c] =
            IF ~queried THEN Finish(new, 500, ErrorBody("Internal server error"))
            ELSE IF \A sapId \in ProductSaps :
                        ~products[sapId].exists \/ products[sapId].imageid # imageId
            THEN Finish(new, 404, ErrorBody("Image not found"))
            ELSE [new EXCEPT !.pc = "s3list", !.s3Calls = @ + 1]]
    /\ UNCHANGED <<batch, variant, s3, articles, images, products>>

\* A listing that finds no object.
ListObjects_None(bucket, prefix) == {}

\* s3.listObjectsV2({ Prefix: imageId }): the keys that begin with the id.
ListObjects(bucket, prefix) == {key \in bucket : key.uuid = prefix}

\* listObjectsV2 resolves or rejects: 404 without Contents, else the handler
\* gets the object of the first key.
FirestoreServeList(c) ==
    /\ variant = "firestore"
    /\ calls[c].kind = "serve" /\ calls[c].pc = "s3list"
    /\ \E listed \in BOOLEAN :
        LET Contents == ListObjects(s3, calls[c].target)
        IN calls' = [calls EXCEPT ![c] =
            IF ~listed THEN Finish(@, 500, ErrorBody("Internal server error"))
            ELSE IF Contents = {}
            THEN Finish(@, 404, ErrorBody("Image file not found in S3"))
            ELSE [@ EXCEPT !.pc = "s3get", !.s3Calls = @ + 1,
                           !.key = CHOOSE key \in Contents : TRUE]]
    /\ UNCHANGED <<batch, variant, s3, articles, images, products>>

\* s3.getObject resolves, and the handler sends the body, or rejects.
FirestoreServeGet(c) ==
    /\ variant = "firestore"
    /\ calls[c].kind = "serve" /\ calls[c].pc = "s3get"
    /\ \E ok \in BOOLEAN :
        calls' = [calls EXCEPT ![c] =
            IF ok /\ calls[c].key \in s3
            THEN Finish(@, 200, [NoBody EXCEPT !.served = calls[c].key])
            ELSE Finish(@, 500, ErrorBody("Internal server error"))]
    /\ UNCHANGED <<batch, variant, s3, articles, images, products>>

\* ------------------------------------ multi-article server: GET /api/images

\* A row as the table stores it: created_at DATETIME DEFAULT CURRENT_TIMESTAMP,
\* the second of the insert.  The listing alone reads the column, so the rows
\* of the other specifications leave it out.
StoredRow(row, createdAt) == row @@ [created_at |-> createdAt]

\* ORDER BY i.created_at DESC: the later second first, rows of one second in
\* the order of the table scan, the order of insertion.
RECURSIVE OrderByCreatedAtDesc(_)
OrderByCreatedAtDesc(rows) ==
    IF rows = <<>> THEN <<>>
    ELSE LET row == rows[Len(rows)]
             before == OrderByCreatedAtDesc(SubSeq(rows, 1, Len(rows) - 1))
             ahead == Cardinality({k \in 1..Len(before) : before[k].created_at > row.created_at})
         IN SubSeq(before, 1, ahead) \o <<row>> \o SubSeq(before, ahead + 1, Len(before))

\* LIMIT ? OFFSET ?: a negative limit is no limit, a negative offset is none.
LimitOffset(rows, limit, offset) ==
    LET from == IF offset < 0 THEN 0 ELSE offset
        upto == IF limit < 0 \/ from + limit > Len(rows) THEN Len(rows) ELSE from + limit
    IN SubSeq(rows, from + 1, upto)

\* parseInt(req.query.page) || 1 and parseInt(req.query.limit) || 50
QueryInt(v, default) ==
    LET n == IF v.t = "string" THEN ParseIntStr(v.s) ELSE NaN
    IN IF n = NaN \/ n = 0 THEN default ELSE n

\* An offset that skips the requested page as well.
Offset_FromPage(page, limit) == page * limit

\* const offset = (page - 1) * limit
Offset(page, limit) == (page - 1) * limit

\* Math.ceil(countRow.total / limit)
TotalPages(total, limit) ==
    IF total % limit = 0 THEN total \div limit ELSE total \div limit + 1

\* The rows of the paged SELECT.
PageRows(rows, page, limit) ==
    LimitOffset(OrderByCreatedAtDesc(rows), limit, Offset(page, limit))

\* The query strings of the listings: absent, or one character.
QueryAlphabet == {"0", "1", "2", "3", "x"}
QueryValues == {Undef} \cup {StrVal(<<ch>>) : ch \in QueryAlphabet}

\* The request arrives: the handler reads its query and issues the COUNT.
ListStart(c) ==
    /\ variant = "multi"
    /\ Free(c)
    /\ \E page \in QueryValues, limit \in QueryValues :
        calls' = [calls EXCEPT ![c] =
            [@ EXCEPT !.kind = "list", !.pc = "count", !.dbCalls = @ + 1,
                      !.page = QueryInt(page, 1), !.limit = QueryInt(limit, 50)]]
    /\ UNCHANGED <<batch, variant, s3, articles, images, products>>

\* db.get calls back: 500 on an error, else the handler keeps the count and
\* issues the paged SELECT.
ListCount(c) ==
    /\ calls[c].kind = "list" /\ calls[c].pc = "count"
    /\ \E ok \in BOOLEAN :
        calls' = [calls EXCEPT ![c] =
            IF ~ok THEN Finish(@, 500, ErrorBody("Failed to fetch image count"))
            ELSE [@ EXCEPT !.pc = "rows", !.total = Len(images), !.dbCalls = @ + 1]]
    /\ UNCHANGED <<batch, variant, s3, articles, images, products>>

\* The answer of the listing: the rows of the page and the pagination.
ListResponse(call, rows) ==
    LET totalPages == TotalPages(call.total, call.limit)
    IN [NoBody EXCEPT
           !.images = rows,
           !.pagination =
               [currentPage |-> call.page, totalPages |-> totalPages,
                totalImages |-> call.total, imagesPerPage |-> call.limit,
                hasNextPage |-> call.page < totalPages, hasPrevPage |-> call.page > 1]]

\* db.all calls back: 500 on an error, else the handler answers.
ListRows(c) ==
    /\ calls[c].kind = "list" /\ calls[c].pc = "rows"
    /\ \E ok \in BOOLEAN :
        calls' = [calls EXCEPT ![c] =
            IF ~ok THEN Finish(@, 500, ErrorBody("Failed to fetch images"))
            ELSE Finish(@, 200, ListResponse(@, PageRows(images, @.page, @.limit)))]
    /\ UNCHANGED <<batch, variant, s3, articles, images, products>>

\* -------------------------------------------------------- batch upload client

\* Most files of the folder, and the largest --concurrent value.
MaxFiles == 3
MaxConcurrent == 2

\* path.extname: from the last "." of the name on, "" without one or when the
\* name starts with its only ".".
RECURSIVE LastDot(_, _)
LastDot(name, i) ==
    IF i = 0 THEN 0 ELSE IF name[i] = "." THEN i ELSE LastDot(name, i - 1)

ExtName(name) ==
    LET d == LastDot(name, Len(name))
    IN IF d <= 1 THEN <<>> ELSE SubSeq(name, d, Len(name))

\* path.parse(filename).name: the name without its extension.
NameWithoutExt(name) == SubSeq(name, 1, Len(name) - Len(ExtName(name)))

supportedExts ==
    {<<".", "j", "p", "g">>, <<".", "j", "p", "e", "g">>, <<".", "p", "n", "g">>,
     <<".", "g", "i", "f">>, <<".", "w", "e", "b", "p">>, <<".", "b", "m", "p">>,
     <<".", "t", "i", "f", "f">>, <<".", "t", "i", "f">>}

\* toLowerCase, on the letters file names are written with here.
ToLowerCase(s) == [i \in 1..Len(s) |-> IF s[i] = "G" THEN "g" ELSE IF s[i] = "P" THEN "p"
                                       ELSE IF s[i] = "N" THEN "n" ELSE s[i]]

isSupportedImageFormat(filename) == ToLowerCase(ExtName(filename)) \in supportedExts

\* /^\d+$/
AllDigits(part) == part # <<>> /\ \A i \in 1..Len(part) : part[i] \in Digits

\* An extraction that tests the parts as they are split, untrimmed.
extractSapIds_NoTrim(filename) ==
    LET parts == Split(NameWithoutExt(filename), "-")
    IN FilterSeq(parts, {part \in Range(parts) : AllDigits(part)})

extractSapIds(filename) ==
    LET parts == MapTrim(Split(NameWithoutExt(filename), "-"))
    IN FilterSeq(parts, {part \in Range(parts) : AllDigits(part)})

\* The entries a folder may hold.
FolderEntries ==
    {<<"1", "-", "2", ".", "p", "n", "g">>, <<"b", "a", "d", ".", "p", "n", "g">>,
     <<"3", ".", "j", "p", "g">>, <<"1", "-", "2", "-", "3", ".", "P", "N", "G">>,
     <<"n", ".", "t", "x", "t">>}

\* readdirSync: the entries in the order the file system lists them.
Folders ==
    {d \in UNION {[1..m -> FolderEntries] : m \in 0..MaxFiles} :
        \A i, j \in 1..Len(d) : i # j => d[i] # d[j]}

\* What an upload's promise resolves to: uploadImageForSap never rejects.
Inflight == [settled |-> FALSE, success |-> FALSE, error |-> ""]
UploadErrors == {"Internal server error", "request failed"}
UploadResults ==
    {[settled |-> TRUE, success |-> TRUE, error |-> ""]}
    \cup {[settled |-> TRUE, success |-> FALSE, error |-> e] : e \in UploadErrors}

BatchInit ==
    /\ variant = "firestore"
    /\ s3 = {}
    /\ articles = {}
    /\ images = <<>>
    /\ products = [p \in ProductSaps |-> NoProduct]
    /\ calls = [c \in Calls |-> IdleCall]
    /\ \E dir \in Folders, concurrent \in 1..MaxConcurrent, skipErrors \in BOOLEAN :
        batch = [BatchIdle EXCEPT !.pc = "list", !.dir = dir,
                                  !.concurrent = concurrent, !.skipErrors = skipErrors]

\* processImageFolder up to the loop over the files: the folder's supported
\* image files; without any, the run returns before the report.
BatchList ==
    /\ batch.pc = "list"
    /\ LET files == FilterSeq(batch.dir, {e \in Range(batch.dir) : isSupportedImageFormat(e)})
       IN batch' = [batch EXCEPT !.files = files, !.f = 1,
                                 !.pc = IF Len(files) = 0 THEN "returned" ELSE "files"]
    /\ UNCHANGED server

\* uploadPromises = sapIds.map(sapId => uploadImageForSap(imagePath, sapId)):
\* every call runs to its fetch at once, so one request per SAP ID is under way.
StartUploads(sapIds) == [j \in 1..Len(sapIds) |-> Inflight]

\* A loop head that passes over a file without SAP IDs uncounted.
BatchFile_SkipUncounted ==
    /\ batch.pc = "files"
    /\ IF batch.f > Len(batch.files)
       THEN batch' = [batch EXCEPT !.pc = "summary"]
       ELSE LET file == batch.files[batch.f]
                sapIds == extractSapIds(file)
            IN IF Len(sapIds) = 0
               THEN batch' = [batch EXCEPT !.f = @ + 1]
               ELSE batch' = [batch EXCEPT !.file = file, !.sapIds = sapIds,
                                           !.uploads = StartUploads(sapIds),
                                           !.started = @ + Len(sapIds),
                                           !.i = 0, !.pc = "window"]
    /\ UNCHANGED server

\* The head of the loop over the files: the next file's SAP IDs; a file
\* without any is skipped, for any other the uploads start; after the last
\* file the summary is printed.
BatchFile ==
    /\ batch.pc = "files"
    /\ IF batch.f > Len(batch.files)
       THEN batch' = [batch EXCEPT !.pc = "summary"]
       ELSE LET file == batch.files[batch.f]
                sapIds == extractSapIds(file)
            IN IF Len(sapIds) = 0
               THEN batch' = [batch EXCEPT !.results.skipped = @ + 1, !.f = @ + 1]
               ELSE batch' = [batch EXCEPT !.file = file, !.sapIds = sapIds,
                                           !.uploads = StartUploads(sapIds),
                                           !.started = @ + Len(sapIds),
                                           !.i = 0, !.pc = "window"]
    /\ UNCHANGED server

\* One upload under way settles: the server's answer, a network error or a
\* file read error, turned into a result.
BatchUploadSettles ==
    /\ batch.pc = "window"
    /\ \E j \in 1..Len(batch.uploads), result \in UploadResults :
        /\ ~batch.uploads[j].settled
        /\ batch' = [batch EXCEPT !.uploads[j] = result]
    /\ UNCHANGED server

\* Array.prototype.slice(i, i + concurrent): the 1-based positions taken.  A
\* negative index counts from the end, and neither index leaves 0..len.
SliceIndex(len, k) ==
    IF k < 0 THEN (IF len + k < 0 THEN 0 ELSE len + k) ELSE IF k > len THEN len ELSE k

SliceRange(len, i, concurrent) == (SliceIndex(len, i) + 1)..SliceIndex(len, i + concurrent)

\* A loop over batchResults that leaves the process at the first failure even
\* with skipErrors true.
RECURSIVE Count_ExitAlways(_, _, _, _, _)
Count_ExitAlways(report, window, uploads, sapIds, ctx) ==
    IF window = <<>> THEN [report |-> report, exited |-> FALSE]
    ELSE LET j == Head(window)
             counted == [report EXCEPT !.total = @ + 1]
         IN IF uploads[j].success
            THEN Count_ExitAlways([counted EXCEPT !.successful = @ + 1], Tail(window),
                                  uploads, sapIds, ctx)
            ELSE [report |-> [counted EXCEPT !.failed = @ + 1,
                                             !.errors = Append(@, [file |-> ctx.file,
                                                                   sapId |-> sapIds[j],
                                                                   error |-> uploads[j].error])],
                  exited |-> TRUE]

\* A loop over batchResults that counts on after a failure even with
\* skipErrors false.
RECURSIVE Count_NoExit(_, _, _, _, _)
Count_NoExit(report, window, uploads, sapIds, ctx) ==
    IF window = <<>> THEN [report |-> report, exited |-> FALSE]
    ELSE LET j == Head(window)
             counted == [report EXCEPT !.total = @ + 1]
         IN IF uploads[j].success
            THEN Count_NoExit([counted EXCEPT !.successful = @ + 1], Tail(window),
                              uploads, sapIds, ctx)
            ELSE Count_NoExit([counted EXCEPT !.failed = @ + 1,
                                              !.errors = Append(@, [file |-> ctx.file,
                                                                    sapId |-> sapIds[j],
                                                                    error |-> uploads[j].error])],
                              Tail(window), uploads, sapIds, ctx)

\* results after the loop over batchResults, result by result in order; with
\* skipErrors false the first failure ends the process inside the loop.
RECURSIVE Count(_, _, _, _, _)
Count(report, window, uploads, sapIds, ctx) ==
    IF window = <<>> THEN [report |-> report, exited |-> FALSE]
    ELSE LET j == Head(window)
             counted == [report EXCEPT !.total = @ + 1]
         IN IF uploads[j].success
            THEN Count([counted EXCEPT !.successful = @ + 1], Tail(window), uploads, sapIds, ctx)
            ELSE LET failed == [counted EXCEPT !.failed = @ + 1,
                                               !.errors = Append(@, [file |-> ctx.file,
                                                                     sapId |-> sapIds[j],
                                                                     error |-> uploads[j].error])]
                 IN IF ~ctx.skipErrors THEN [report |-> failed, exited |-> TRUE]
                    ELSE Count(failed, Tail(window), uploads, sapIds, ctx)

SeqOfRange(lo, hi) == [k \in 1..(IF hi < lo THEN 0 ELSE hi - lo + 1) |-> lo + k - 1]

\* One pass of the loop over the windows: await Promise.all of the window,
\* count its results, step i; past the last window, the next file.
BatchWindow ==
    /\ batch.pc = "window"
    /\ IF batch.i >= Len(batch.uploads)
       THEN batch' = [batch EXCEPT !.f = @ + 1, !.pc = "files",
                                   !.past = Append(@, [file |-> batch.file,
                                                       sapIds |-> batch.sapIds,
                                                       uploads |-> batch.uploads])]
       ELSE LET window == SliceRange(Len(batch.uploads), batch.i, batch.concurrent)
                lo == SliceIndex(Len(batch.uploads), batch.i) + 1
                hi == lo + Cardinality(window) - 1
                counted == Count(batch.results, SeqOfRange(lo, hi), batch.uploads, batch.sapIds,
                                 [file |-> batch.file, skipErrors |-> batch.skipErrors])
            IN /\ \A j \in window : batch.uploads[j].settled
               /\ batch' = [batch EXCEPT !.results = counted.report,
                                         !.i = @ + batch.concurrent,
                                         !.pc = IF counted.exited THEN "exited" ELSE "window"]
    /\ UNCHANGED server

\* The summary is printed and processImageFolder returns.
BatchSummary ==
    /\ batch.pc = "summary"
    /\ batch' = [batch EXCEPT !.pc = "returned", !.summary = TRUE]
    /\ UNCHANGED server

\* ------------------------------------- batch upload client against the server

\* getContentType, and the extension the server names the object with, for
\* the extensions of the folder entries.
getContentType(filename) ==
    IF ToLowerCase(ExtName(filename)) = <<".", "p", "n", "g">> THEN "image/png" ELSE "image/jpeg"
fileExtension(filename) ==
    IF ToLowerCase(ExtName(filename)) = <<".", "p", "n", "g">> THEN ".png" ELSE ".jpg"

\* The request of upload j of the file at hand has reached the server.
Sent(j) == \E c \in Calls : calls[c].client = <<batch.f, j>>

\* uploadImageForSap up to its fetch: POST /upload-image/<sapId> with the image
\* reaches the server, and the handler runs to its first await.
UploadFetch(c) ==
    /\ variant = "firestore"
    /\ batch.pc = "window"
    /\ Free(c)
    /\ \E j \in 1..Len(batch.uploads) :
        /\ ~batch.uploads[j].settled /\ ~Sent(j)
        /\ LET file == [present |-> TRUE, mimetype |-> getContentType(batch.file),
                        ext |-> fileExtension(batch.file)]
               body == [sap |-> StrVal(batch.sapIds[j]), saps |-> Undef]
               new == [calls[c] EXCEPT !.kind = "upload", !.file = file,
                                       !.client = <<batch.f, j>>]
           IN calls' = [calls EXCEPT ![c] = FirestoreUploadHandler(new, c, file, body)]
    /\ UNCHANGED <<batch, variant, s3, articles, images, products>>

\* What uploadImageForSap returns of an answer: success where response.ok,
\* else the answer's error.
UploadResult(status, body) ==
    IF status \in 200..299 THEN [settled |-> TRUE, success |-> TRUE, error |-> ""]
    ELSE [settled |-> TRUE, success |-> FALSE,
          error |-> IF body.error # "" THEN body.error ELSE "Unknown error"]

\* The server's answer arrives and the upload's promise resolves.
UploadResponse ==
    /\ batch.pc = "window"
    /\ \E j \in 1..Len(batch.uploads), c \in Calls :
        /\ ~batch.uploads[j].settled
        /\ calls[c].client = <<batch.f, j>> /\ calls[c].status # 0
        /\ batch' = [batch EXCEPT !.uploads[j] = UploadResult(calls[c].status, calls[c].body)]
    /\ UNCHANGED server

\* readFileSync or fetch throws: the catch turns the message into a result.
UploadThrows ==
    /\ batch.pc = "window"
    /\ \E j \in 1..Len(batch.uploads) :
        /\ ~batch.uploads[j].settled
        /\ batch' = [batch EXCEPT !.uploads[j] =
               [settled |-> TRUE, success |-> FALSE, error |-> "request failed"]]
    /\ UNCHANGED server

Next ==
    \E c \in Calls :
        \/ MultiUploadStart(c, MultiServiceBodies)
        \/ MultiUploadS3(c)
        \/ MultiUpsert(c)
        \/ MultiInsert(c)
        \/ SingleUploadStart(c, SingleServiceBodies)
        \/ SingleUploadS3(c)
        \/ SingleUpsert(c)
        \/ SingleInsert(c)
        \/ DeleteStart(c)
        \/ DeleteS3(c)
        \/ DeleteDb(c)
        \/ ServeStart(c)
        \/ ServeS3(c)
        \/ ImageGet(c)
        \/ PurgeStart(c)
        \/ PurgeS3(c)
        \/ PurgeImages(c)
        \/ PurgeArticles(c)
        \/ FirestoreUploadStart(c, FirestoreServiceBodies)
        \/ FirestoreUploadS3(c)
        \/ FirestoreUpdate(c)

Spec == Init /\ [][Next]_vars

NextRequest ==
    \/ MultiUploadStart(1, MultiRequestBodies)
    \/ MultiUploadS3(1)
    \/ MultiUpsert(1)
    \/ MultiInsert(1)
    \/ SingleUploadStart(1, SingleRequestBodies)
    \/ SingleUploadS3(1)
    \/ SingleUpsert(1)
    \/ SingleInsert(1)
    \/ FirestoreUploadStart(1, FirestoreRequestBodies)
    \/ FirestoreUploadS3(1)
    \/ FirestoreUpdate(1)

SpecRequest == Init /\ [][NextRequest]_vars

\* extractSapIds on its own: any file name within the bounds, with and without
\* an extension, and the names of the documentation.
MaxNameLen == 4
NameAlphabet == {"1", "2", "-", " ", "a", "."}
FileNames ==
    {b \o e : b \in StringsOver(NameAlphabet, MaxNameLen),
               e \in {<<>>, <<".", "p", "n", "g">>}}
    \cup {<<"1", "2", "3", "-", "4", "5", "6", ".", "p", "n", "g">>,
          <<"n", "o", "-", "i", "d", "s", "-", "h", "e", "r", "e", ".", "p", "n", "g">>}

ExtractInit ==
    /\ variant = "firestore"
    /\ s3 = {}
    /\ articles = {}
    /\ images = <<>>
    /\ products = [p \in ProductSaps |-> NoProduct]
    /\ calls = [c \in Calls |-> IdleCall]
    /\ \E filename \in FileNames : batch = [BatchIdle EXCEPT !.pc = "extract", !.file = filename]

\* const sapIds = extractSapIds(file)
ExtractCall ==
    /\ batch.pc = "extract"
    /\ batch' = [batch EXCEPT !.sapIds = extractSapIds(batch.file), !.pc = "extracted"]
    /\ UNCHANGED server

SpecExtract == ExtractInit /\ [][ExtractCall]_vars

\* GET /api/images on its own, over every table within the bounds: each row
\* was inserted in the second of the row before it or in a later one.
MaxRows == 3
Tables ==
    {[k \in 1..n |->
        StoredRow(ImageRow(uuidv4(k, 1), <<"a">>, [uuid |-> uuidv4(k, 0), ext |-> ".png"]),
                  Cardinality({j \in 2..k : j \in later}))] :
        n \in 0..MaxRows, later \in SUBSET (2..MaxRows)}

ListInit ==
    /\ batch = BatchIdle
    /\ variant = "multi"
    /\ images \in Tables
    /\ s3 = {images[k].s3_key : k \in 1..Len(images)}
    /\ articles = {images[k].article_id : k \in 1..Len(images)}
    /\ products = [p \in ProductSaps |-> NoProduct]
    /\ calls = [c \in Calls |-> IdleCall]

\* Two listings, so that one may follow or overlap the other.
NextList == \E c \in {1, 2} : ListStart(c) \/ ListCount(c) \/ ListRows(c)

SpecList == ListInit /\ [][NextList]_vars

\* The Firestore server on its own, its reads along with its upload.
FirestoreInit == Init /\ variant = "firestore"

NextFirestore ==
    \E c \in Calls :
        \/ FirestoreUploadStart(c, FirestoreServiceBodies)
        \/ FirestoreUploadS3(c)
        \/ FirestoreUpdate(c)
        \/ ProductImage(c)
        \/ FirestoreServeStart(c)
        \/ FirestoreServeList(c)
        \/ FirestoreServeGet(c)

SpecFirestore == FirestoreInit /\ [][NextFirestore]_vars

NextBatch ==
    \/ BatchList
    \/ BatchFile
    \/ BatchUploadSettles
    \/ BatchWindow
    \/ BatchSummary

SpecBatch == BatchInit /\ [][NextBatch]_vars

\* The batch client against the Firestore server: a folder of files with SAP
\* IDs whose uploads the request slots can take, and any products.
RECURSIVE UploadsOf(_)
UploadsOf(dir) ==
    IF dir = <<>> THEN 0
    ELSE (IF isSupportedImageFormat(Head(dir)) THEN Len(extractSapIds(Head(dir))) ELSE 0)
         + UploadsOf(Tail(dir))

DriverInit ==
    /\ variant = "firestore"
    /\ s3 = {}
    /\ articles = {}
    /\ images = <<>>
    /\ products \in [ProductSaps -> {NoImage, NoProduct}]
    /\ calls = [c \in Calls |-> IdleCall]
    /\ \E dir \in {d \in Folders :
                        /\ UploadsOf(d) <= MaxCalls
                        /\ \A k \in 1..Len(d) : UploadsOf(<<d[k]>>) > 0},
          concurrent \in 1..MaxConcurrent, skipErrors \in BOOLEAN :
        batch = [BatchIdle EXCEPT !.pc = "list", !.dir = dir,
                                  !.concurrent = concurrent, !.skipErrors = skipErrors]

NextDriver ==
    \/ BatchList
    \/ BatchFile
    \/ UploadThrows
    \/ UploadResponse
    \/ BatchWindow
    \/ BatchSummary
    \/ \E c \in Calls : UploadFetch(c) \/ FirestoreUploadS3(c) \/ FirestoreUpdate(c)

SpecDriver == DriverInit /\ [][NextDriver]_vars

\* ------------------------------------------------ batch upload client: main

\* options.concurrent = parseInt(args[++i]) || 3: the number the argument
\* begins with, its sign kept; 3 where it begins with none or with zero.
ParseConcurrent(arg) ==
    LET negative == arg # <<>> /\ arg[1] = "-"
        digits == IF negative THEN Tail(arg) ELSE arg
        n == ParseIntStr(digits)
    IN IF n = NaN \/ n = 0 THEN 3 ELSE IF negative THEN 0 - n ELSE n

\* The values of --concurrent: none, or any argument within the bounds.
MaxArgLen == 2
ArgAlphabet == {"-", "0", "1", "2", "x"}
ConcurrentArgs == StringsOver(ArgAlphabet, MaxArgLen)

\* main: the options parsed, processImageFolder begins.  An absent argument
\* after --concurrent and no --concurrent at all both leave 3.
CliInit ==
    /\ variant = "firestore"
    /\ s3 = {}
    /\ articles = {}
    /\ images = <<>>
    /\ products = [p \in ProductSaps |-> NoProduct]
    /\ calls = [c \in Calls |-> IdleCall]
    /\ \E dir \in {d \in Folders : \A k \in 1..Len(d) : UploadsOf(<<d[k]>>) > 0},
          arg \in ConcurrentArgs, skipErrors \in BOOLEAN :
        batch = [BatchIdle EXCEPT !.pc = "list", !.dir = dir,
                                  !.concurrent = ParseConcurrent(arg),
                                  !.skipErrors = skipErrors]

\* The window loop, followed while i is above -MaxBelow.
MaxBelow == 3
CliWindow == batch.i > 0 - MaxBelow /\ BatchWindow

NextCli ==
    \/ BatchList
    \/ BatchFile
    \/ BatchUploadSettles
    \/ CliWindow
    \/ BatchSummary

SpecCli == CliInit /\ [][NextCli]_vars

\* The multi-article server with an image already stored: an earlier request
\* has uploaded it for article "a".  Purges and uploads interleave from there.
StoredInit ==
    /\ batch = BatchIdle
    /\ variant = "multi"
    /\ s3 = {[uuid |-> uuidv4(0, 0), ext |-> ".png"]}
    /\ articles = {<<"a">>}
    /\ images = <<ImageRow(uuidv4(0, 1), <<"a">>, [uuid |-> uuidv4(0, 0), ext |-> ".png"])>>
    /\ products = [p \in ProductSaps |-> NoProduct]
    /\ calls = [c \in Calls |-> IdleCall]

NextStored ==
    \E c \in Calls :
        \/ MultiUploadStart(c, MultiServiceBodies)
        \/ MultiUploadS3(c)
        \/ MultiUpsert(c)
        \/ MultiInsert(c)
        \/ PurgeStart(c)
        \/ PurgeS3(c)
        \/ PurgeImages(c)
        \/ PurgeArticles(c)

SpecStored == StoredInit /\ [][NextStored]_vars

\* ------------------------------------------------------------------ claims

Distinct(seq) == \A i, j \in 1..Len(seq) : i # j => seq[i] # seq[j]

UploadCalls == {c \in Calls : calls[c].kind = "upload"}

\* An upload of the multi-article server of which an image INSERT has failed
\* and another has succeeded.
PartialFailure(c) ==
    /\ variant = "multi"
    /\ calls[c].kind = "upload"
    /\ calls[c].rows # {}
    /\ \E i \in 1..Len(calls[c].res) : calls[c].res[i] = "fail"

\* C1: an upload of the multi-article server for k distinct identifiers whose
\* store calls all succeeded has written exactly one object, under its key, and
\* inserted exactly k image rows, one per identifier, all with that key.
C1_OneObjectManyRows ==
    \A c \in UploadCalls :
        LET call == calls[c]
        IN (variant = "multi" /\ call.pc = "done" /\ call.putOk /\ AllOk(call.res)
            /\ Distinct(call.ids))
           => /\ call.puts = 1
              /\ call.objects = {call.key}
              /\ Cardinality(call.rows) = Len(call.ids)
              /\ \A i \in 1..Len(call.ids) :
                    Cardinality({r \in call.rows : r.article_id = call.ids[i]}) = 1
              /\ \A r \in call.rows : r.s3_key = call.key

C1_Witness ==
    \E c \in UploadCalls :
        /\ variant = "multi" /\ calls[c].pc = "done" /\ calls[c].status = 200
        /\ Len(calls[c].ids) >= 2 /\ Distinct(calls[c].ids)
        /\ Cardinality(calls[c].rows) = Len(calls[c].ids)

\* C2: once DELETE /api/image/:uuid has deleted one image row, every row left
\* that shares the deleted row's key still has its object in the bucket.
C2_DeleteKeepsSharedObject ==
    \A c \in Calls :
        (calls[c].kind = "delete" /\ calls[c].pc = "done" /\ calls[c].status = 200)
        => \A r \in Range(images) : r.s3_key = calls[c].key => r.s3_key \in s3

\* C3: the response of a multi-article upload of which one image INSERT failed
\* and another succeeded lists one outcome per identifier.
C3_OutcomePerIdentifier ==
    \A c \in Calls :
        (PartialFailure(c) /\ calls[c].pc = "done")
        => /\ Len(calls[c].body.insertedRecords) = Len(calls[c].ids)
           /\ \A i \in 1..Len(calls[c].ids) :
                calls[c].res[i] = "ok"
                => calls[c].body.insertedRecords[i].uuid = ImageUuid(c, i)

\* C4: after an image INSERT of an upload has failed while another succeeded,
\* and as long as no DELETE request (of one image or of all) has come, the upload's object is in the
\* bucket, every row it inserted is in the images table with the upload's key,
\* and GET /api/serve-image of such a row asks the bucket for that object and
\* answers with it.
C4_NoRollback ==
    \A c \in Calls :
        (PartialFailure(c) /\ \A d \in Calls : calls[d].kind \notin {"delete", "purge"})
        => /\ calls[c].key \in s3
           /\ \A r \in calls[c].rows : r \in Range(images) /\ r.s3_key = calls[c].key
           /\ \A d \in Calls :
                (calls[d].kind = "serve" /\ calls[d].target \in {r.uuid : r \in calls[c].rows})
                => /\ calls[d].pc = "s3get" => calls[d].key = calls[c].key
                   /\ calls[d].status = 200 => calls[d].body.served = calls[c].key

C4_Witness ==
    \E c, d \in Calls :
        /\ PartialFailure(c) /\ calls[c].pc = "done" /\ calls[c].status = 500
        /\ calls[d].kind = "serve" /\ calls[d].status = 200
        /\ calls[d].target \in {r.uuid : r \in calls[c].rows}

\* C5: no upload writes more than one object, and an upload whose object write
\* failed has ended with 500 and has made no call to the metadata store: no
\* article upserted, no image row inserted, no product updated.
C5_FailedWriteIsFatal ==
    \A c \in UploadCalls :
        LET call == calls[c]
        IN /\ call.puts <= 1
           /\ Cardinality(call.objects) <= 1
           /\ (call.puts = 1 /\ ~call.putOk /\ call.pc # "s3put")
              => /\ call.pc = "done" /\ call.status = 500
                 /\ call.dbCalls = 0
                 /\ call.parents = {} /\ call.rows = {} /\ call.docs = {}

C5_Witness ==
    \E c \in UploadCalls :
        /\ variant = "firestore"
        /\ calls[c].puts = 1 /\ ~calls[c].putOk /\ calls[c].pc = "done"
        /\ Len(calls[c].ids) >= 2

\* The uploads of the current file that are under way.
InFlight == {j \in 1..Len(batch.uploads) : ~batch.uploads[j].settled}

\* C6: while the batch client awaits the uploads of a file, at most
\* `concurrent` of them are under way.
C6_BoundedInFlight ==
    batch.pc = "window" => Cardinality(InFlight) <= batch.concurrent

\* C7: an upload makes no call to the metadata store before its object write
\* has succeeded, in each of the three servers.
C7_ObjectWriteFirst ==
    \A c \in UploadCalls :
        LET call == calls[c]
        IN /\ ~call.early
           /\ (call.dbCalls > 0 \/ call.parents # {} \/ call.rows # {} \/ call.docs # {}
               \/ call.pc \in {"upsert", "insert", "dbwrite", "update"})
              => call.putOk /\ call.key \in call.objects

C7_Witness ==
    \E c \in UploadCalls :
        /\ variant = "single"
        /\ calls[c].rows # {} /\ calls[c].parents # {} /\ calls[c].pc = "done"

\* C8: an upload whose file is of a type outside the allow-list is rejected
\* without a call to the object store or the metadata store, in every server.
C8_DisallowedTypeRejected ==
    \A c \in UploadCalls :
        (calls[c].file.present /\ calls[c].file.mimetype \notin allowedTypes)
        => /\ calls[c].pc = "done" /\ calls[c].status >= 400
           /\ calls[c].s3Calls = 0 /\ calls[c].dbCalls = 0

\* C9: an upload request without a file, or whose identifier input the handler
\* resolved to an empty list, is answered 400 with an error and makes no call
\* to the object store or the metadata store, in every server.
C9_EmptyInputRejected ==
    \A c \in UploadCalls :
        (~calls[c].file.present \/ (calls[c].parse \in {"ok", "none"} /\ calls[c].ids = <<>>))
        => /\ calls[c].pc = "done" /\ calls[c].status = 400
           /\ calls[c].body.error # ""
           /\ calls[c].s3Calls = 0 /\ calls[c].dbCalls = 0

\* C10: in the multi-article server the rows one upload inserted all carry one
\* key, rows of different uploads carry different keys, and no two rows, of
\* one upload or of two, in the table or deleted since, have the same uuid.
C10_KeysAndIds ==
    variant = "multi"
    => /\ \A c, d \in UploadCalls : \A r \in calls[c].rows, q \in calls[d].rows :
            /\ (c = d) <=> (r.s3_key = q.s3_key)
            /\ r # q => r.uuid # q.uuid
       /\ \A i, j \in 1..Len(images) : i # j => images[i].uuid # images[j].uuid
       /\ \A c, d \in UploadCalls :
            (c # d /\ calls[c].key # NoKey /\ calls[d].key # NoKey) => calls[c].key # calls[d].key

\* A retry: two uploads of the same file for the same identifiers, the first
\* with a failed INSERT, both with rows inserted.
C10_Witness ==
    \E c, d \in UploadCalls :
        /\ variant = "multi" /\ c < d
        /\ PartialFailure(c) /\ calls[c].pc = "done"
        /\ calls[d].ids = calls[c].ids /\ calls[d].file = calls[c].file
        /\ calls[d].status = 200

\* C11: a step of DELETE /api/image/:uuid whose s3.deleteObject has failed ends
\* the request with 500 and leaves the images table as it is, and a step of the
\* request that removes its row is the callback of the DELETE statement, issued
\* after the object delete has succeeded.
C11_ObjectDeleteBeforeRow ==
    [][\A c \in Calls :
          (calls[c].kind = "delete" /\ calls'[c] # calls[c])
          => /\ (calls[c].pc = "s3del" /\ calls[c].key \in s3')
                => (calls'[c].pc = "done" /\ calls'[c].status = 500 /\ images' = images)
             /\ images' # images => (calls[c].pc = "dbdel" /\ calls[c].key \notin s3)]_vars

C11_Witness ==
    \E c \in Calls :
        /\ calls[c].kind = "delete" /\ calls[c].pc = "done" /\ calls[c].status = 500
        /\ calls[c].body.error = "Failed to delete file from S3"
        /\ calls[c].target \in Uuids /\ calls[c].key \in s3

\* The store calls of a bulk purge, in the order of the handler.
PurgeOrder == <<"deleteObjects", "deleteImages", "deleteArticles">>

\* No request but the purge c has been under way since c arrived.
Undisturbed(c) == calls[c].alone /\ \A d \in Calls : d > c => calls[d].pc = "idle"

\* C12: a bulk purge that found a row makes one s3.deleteObjects call, then
\* deletes the image rows, then the articles without images, each step only
\* after the one before has succeeded; when s3.deleteObjects fails as a whole
\* the purge ends with 500 and has deleted no row and no article; and once an
\* undisturbed purge has answered 200, both tables are empty.
C12_PurgeInOrder ==
    \A c \in Calls :
        LET call == calls[c]
            log == call.log
        IN (call.kind = "purge" /\ log # <<>>)
           => /\ [i \in 1..Len(log) |-> log[i].op] = SubSeq(PurgeOrder, 1, Len(log))
              /\ call.s3Calls = 1
              /\ \A i \in 2..Len(log) : log[i - 1].outcome = "ok"
              /\ call.delRows # {} => (Len(log) >= 2 /\ log[2].outcome = "ok")
              /\ call.delParents # {} => (Len(log) = 3 /\ log[3].outcome = "ok")
              /\ log[1].outcome = "fail"
                 => /\ call.pc = "done" /\ call.status = 500
                    /\ call.delRows = {} /\ call.delParents = {}
              /\ (call.pc = "done" /\ call.status = 200 /\ Undisturbed(c))
                 => (images = <<>> /\ articles = {})

\* C13: a bulk purge whose s3.deleteObjects came back with Errors for some keys
\* goes on to DELETE FROM images; its response carries those keys in s3Errors,
\* next to the success message when the DELETE succeeded; and the rows it has
\* deleted include, when it was undisturbed, the rows of the keys in Errors,
\* and the table is empty.
C13_ObjectErrorsReported ==
    \A c \in Calls :
        LET call == calls[c]
        IN (call.kind = "purge" /\ call.s3Errors # {})
           => /\ call.log[1].outcome = "ok"
              /\ Len(call.log) >= 2 /\ call.log[2].op = "deleteImages"
              /\ call.pc = "done"
                 => /\ call.body.s3Errors = call.s3Errors
                    /\ call.status = 200
                       <=> call.log[2].outcome = "ok"
                    /\ call.status = 200
                       => (call.body.error = ""
                           /\ call.body.message = "All images deleted successfully")
              /\ (call.log[2].outcome = "ok" /\ Undisturbed(c))
                 => /\ images = <<>>
                    /\ \A k \in call.s3Errors : \E r \in call.delRows : r.s3_key = k

C13_Witness ==
    \E c \in Calls :
        /\ calls[c].kind = "purge" /\ calls[c].pc = "done" /\ calls[c].status = 200
        /\ Undisturbed(c)
        /\ calls[c].s3Errors # {} /\ calls[c].s3Errors \subseteq s3
        /\ \E r \in calls[c].delRows : r.s3_key \in calls[c].s3Errors

\* The failures among the uploads of one file, in the order of its SAP IDs,
\* from the j-th on.
RECURSIVE FailuresFrom(_, _)
FailuresFrom(e, j) ==
    IF j > Len(e.uploads) THEN <<>>
    ELSE (IF e.uploads[j].success THEN <<>>
          ELSE <<[file |-> e.file, sapId |-> e.sapIds[j], error |-> e.uploads[j].error]>>)
         \o FailuresFrom(e, j + 1)

\* The failures of the files of past from the k-th on, and the number of their uploads.
RECURSIVE AllFailures(_, _)
AllFailures(past, k) ==
    IF k > Len(past) THEN <<>> ELSE FailuresFrom(past[k], 1) \o AllFailures(past, k + 1)

RECURSIVE AllUploads(_, _)
AllUploads(past, k) ==
    IF k > Len(past) THEN 0 ELSE Len(past[k].uploads) + AllUploads(past, k + 1)

\* The files of the folder that the run uploads: supported images with a SAP ID.
FilesWithIds ==
    FilterSeq(batch.files, {file \in Range(batch.files) : extractSapIds(file) # <<>>})

\* C14: with skipErrors true the run never leaves at a failure; when it has
\* come to the summary, every file with a SAP ID has had one upload per SAP ID
\* of its name, each of them settled, every failure is in results.errors with
\* its file, SAP ID and error, in order, and the run returns only after the
\* summary.
C14_SkipErrorsRunsOn ==
    batch.skipErrors
    => /\ batch.pc # "exited"
       /\ batch.results.failed = Len(batch.results.errors)
       /\ (batch.pc \in {"summary", "returned"} /\ batch.files # <<>>)
          => /\ batch.summary <=> batch.pc = "returned"
             /\ [k \in 1..Len(batch.past) |-> batch.past[k].file] = FilesWithIds
             /\ \A k \in 1..Len(batch.past) :
                    LET e == batch.past[k]
                    IN /\ e.sapIds = extractSapIds(e.file)
                       /\ Len(e.uploads) = Len(e.sapIds)
                       /\ \A j \in 1..Len(e.uploads) : e.uploads[j].settled
             /\ batch.results.errors = AllFailures(batch.past, 1)
             /\ batch.results.total = AllUploads(batch.past, 1)
             /\ batch.started = batch.results.total

C14_Witness ==
    /\ batch.skipErrors /\ batch.pc = "returned" /\ batch.summary
    /\ Len(batch.past) >= 2 /\ batch.results.failed >= 2
    /\ FailuresFrom(batch.past[1], 1) # <<>>
    /\ \E j \in 1..Len(batch.past[2].uploads) : batch.past[2].uploads[j].success

\* The first failure among the uploads of the current file that the loop over
\* the windows comes to, counting from the window it was in at its last pass.
FirstFailure ==
    CHOOSE k \in 1..Len(batch.uploads) :
        /\ batch.uploads[k].settled /\ ~batch.uploads[k].success
        /\ \A j \in 1..(k - 1) : batch.uploads[j].settled /\ batch.uploads[j].success

\* C15: with skipErrors false, once a failure is counted the process has left:
\* the failure is the last result counted and the only one in results.errors,
\* and from then on no upload is started and no result is counted.
C15_HaltsAtFirstFailure ==
    /\ [](( ~batch.skipErrors /\ batch.results.failed > 0)
          => /\ batch.pc = "exited"
             /\ batch.results.failed = 1
             /\ batch.results.total = AllUploads(batch.past, 1) + FirstFailure
             /\ batch.results.successful = batch.results.total - 1
             /\ batch.results.errors =
                    <<[file |-> batch.file, sapId |-> batch.sapIds[FirstFailure],
                       error |-> batch.uploads[FirstFailure].error]>>)
    /\ [][(~batch.skipErrors /\ batch.results.failed > 0)
           => (batch'.results = batch.results /\ batch'.started = batch.started)]_vars

C15_Witness ==
    /\ ~batch.skipErrors /\ batch.pc = "exited"
    /\ Len(batch.past) >= 1 /\ batch.f < Len(batch.files)
    /\ batch.results.successful >= 2

\* C16: when the process leaves at a failure, no upload it has started is
\* still under way.
C16_InFlightComplete ==
    batch.pc = "exited" => InFlight = {}

\* C17: for a file with SAP IDs the client starts exactly one upload call,
\* whatever the number of SAP IDs in its name.
C17_OneCallPerFile ==
    /\ batch.pc = "window" => Len(batch.uploads) = 1
    /\ batch.started = Len(batch.past) + (IF batch.pc \in {"window", "exited"} THEN 1 ELSE 0)

\* C18: for a folder with 1-2.png, bad.png and 3.jpg, two concurrent uploads
\* and no failed upload, the report is total 3, successful 2, failed 0,
\* skipped 1; and in every run the files counted as skipped are the supported
\* images without a SAP ID the loop has come past, which start no upload and
\* are in no error of the report.
C18_Report ==
    /\ (/\ batch.pc = "returned"
        /\ Range(batch.dir) = {<<"1", "-", "2", ".", "p", "n", "g">>,
                               <<"b", "a", "d", ".", "p", "n", "g">>,
                               <<"3", ".", "j", "p", "g">>}
        /\ batch.concurrent = 2
        /\ batch.results.failed = 0)
       => /\ batch.results.total = 3
          /\ batch.results.successful = 2
          /\ batch.results.skipped = 1
    /\ batch.pc \in {"files", "summary", "returned"}
       => batch.results.skipped =
             Cardinality({k \in 1..Len(batch.files) :
                             k < batch.f /\ extractSapIds(batch.files[k]) = <<>>})
    /\ \A k \in 1..Len(batch.results.errors) :
          extractSapIds(batch.results.errors[k].file) # <<>>

\* The parts of a name between its hyphens: part a starts after the cut a, a
\* hyphen or the start of the name, and ends before the next hyphen or the end.
Cuts(s) == {0} \cup {i \in 1..Len(s) : s[i] = "-"}
PartAfter(s, a) ==
    LET next == {i \in (a + 1)..Len(s) : s[i] = "-"}
        b == IF next = {} THEN Len(s) + 1 ELSE CHOOSE i \in next : \A j \in next : i <= j
    IN SubSeq(s, a + 1, b - 1)

\* A part without the blanks around it.
Trimmed(part) ==
    LET inked == {i \in 1..Len(part) : part[i] # " "}
    IN IF inked = {} THEN <<>>
       ELSE SubSeq(part, CHOOSE i \in inked : \A j \in inked : i <= j,
                         CHOOSE i \in inked : \A j \in inked : i >= j)

Numeric(part) ==
    part # <<>> /\ \A i \in 1..Len(part) :
        part[i] \in {"0", "1", "2", "3", "4", "5", "6", "7", "8", "9"}

\* The cuts of the parts that are numeric once trimmed.
NumericCuts(s) == {a \in Cuts(s) : Numeric(Trimmed(PartAfter(s, a)))}

\* C19: extractSapIds returns the hyphen-separated parts of the name without
\* its extension that are numeric once trimmed, trimmed, one per such part and
\* in their order; 123-456.png gives 123, 456 and no-ids-here.png gives none.
C19_ExtractSapIds ==
    batch.pc = "extracted"
    => LET s == NameWithoutExt(batch.file)
           r == batch.sapIds
       IN /\ Len(r) = Cardinality(NumericCuts(s))
          /\ \A a \in NumericCuts(s) :
                r[Cardinality({b \in NumericCuts(s) : b < a}) + 1] = Trimmed(PartAfter(s, a))
          /\ batch.file = <<"1", "2", "3", "-", "4", "5", "6", ".", "p", "n", "g">>
             => r = << <<"1", "2", "3">>, <<"4", "5", "6">> >>
          /\ batch.file = <<"n", "o", "-", "i", "d", "s", "-", "h", "e", "r", "e",
                            ".", "p", "n", "g">>
             => r = <<>>

C19_Witness ==
    /\ batch.pc = "extracted"
    /\ batch.file = <<"a", "-", " ", "1", ".", "p", "n", "g">>
    /\ batch.sapIds = << <<"1">> >>

\* C20: GET /api/image/:uuid and GET /api/serve-image/:uuid for a uuid no image
\* row has end at once, with 404 and the body {error: 'Image not found'}, or
\* with 500 when the lookup itself failed; the body holds no key, the bucket
\* is not called and the bucket and both tables stay as they are.
C20_UnknownIdNotFound ==
    [][\A c \in Calls :
          (/\ calls[c].pc = "idle"
           /\ calls'[c].kind \in {"image", "serve"}
           /\ calls'[c].target \notin Uuids)
          => /\ calls'[c].pc = "done"
             /\ calls'[c].body \in {ErrorBody("Image not found"),
                                    ErrorBody("Failed to fetch image")}
             /\ calls'[c].status = IF calls'[c].body.error = "Image not found"
                                   THEN 404 ELSE 500
             /\ calls'[c].body.s3Key = NoKey /\ calls'[c].body.served = NoKey
             /\ calls'[c].s3Calls = 0
             /\ UNCHANGED <<s3, images, articles>>]_vars

C20_Witness ==
    \E c \in Calls :
        /\ calls[c].kind \in {"image", "serve"} /\ calls[c].pc = "done"
        /\ calls[c].status = 404 /\ calls[c].target \notin Uuids
        /\ images # <<>> /\ s3 # {}

\* The listings that have answered 200.
Listed == {c \in Calls : calls[c].kind = "list" /\ calls[c].status = 200}

\* The orders of the table that are newest first: every row once, no row
\* before a row of a later second.
NewestFirst ==
    {[k \in 1..Len(images) |-> images[f[k]]] :
        f \in {g \in [1..Len(images) -> 1..Len(images)] :
                  /\ \A j, k \in 1..Len(images) : j # k => g[j] # g[k]
                  /\ \A j, k \in 1..Len(images) :
                        j < k => images[g[j]].created_at >= images[g[k]].created_at}}

\* Rows lo..hi of an order, none where lo > hi.
RowsFrom(order, lo, hi) == [k \in 1..(IF hi < lo THEN 0 ELSE hi - lo + 1) |-> order[lo + k - 1]]

\* The pages 1..n of the table at limit L, one after the other.
RECURSIVE PagesUpTo(_, _)
PagesUpTo(n, L) == IF n = 0 THEN <<>> ELSE PagesUpTo(n - 1, L) \o PageRows(images, n, L)

\* C21: a listing of page p >= 1 at limit L >= 1 over a table of T rows that
\* no request writes reports totalImages = T and totalPages = ceil(T / L), the
\* least n with n * L >= T, holds at most L rows, namely rows (p-1)*L+1 ..
\* min(p*L, T) of one newest-first order of the table, the same for every
\* listing, has hasNextPage exactly when p * L < T and hasPrevPage exactly when
\* p > 1; and at every limit the pages 1..totalPages hold every row once.
C21_Pagination ==
    LET T == Len(images)
        Min(a, b) == IF a < b THEN a ELSE b
    IN /\ \E order \in NewestFirst :
            \A c \in Listed :
                LET p == calls[c].page
                    L == calls[c].limit
                    body == calls[c].body
                IN /\ p >= 1 /\ L >= 1
                   /\ body.pagination.totalImages = T
                   /\ body.pagination.totalPages * L >= T
                   /\ \A n \in 0..T : n * L >= T => body.pagination.totalPages <= n
                   /\ body.pagination.currentPage = p
                   /\ body.pagination.imagesPerPage = L
                   /\ Len(body.images) <= L
                   /\ body.images = RowsFrom(order, (p - 1) * L + 1, Min(p * L, T))
                   /\ body.pagination.hasNextPage = (p * L < T)
                   /\ body.pagination.hasPrevPage = (p > 1)
       /\ \A L \in 1..(T + 1) :
            LET all == PagesUpTo(TotalPages(T, L), L)
            IN /\ Len(all) = T
               /\ \A k \in 1..T : \E j \in 1..T : all[j] = images[k]

\* Three rows, two of one second: listings of page 1 and of page 2 at limit 2
\* have answered, the second with the one row left and no next page.
C21_Witness ==
    /\ Len(images) = 3
    /\ images[2].created_at = images[3].created_at
    /\ \E c, d \in Listed :
        /\ calls[c].page = 1 /\ calls[c].limit = 2 /\ Len(calls[c].body.images) = 2
        /\ calls[c].body.pagination.hasNextPage
        /\ calls[d].page = 2 /\ calls[d].limit = 2 /\ Len(calls[d].body.images) = 1
        /\ calls[d].body.pagination.hasPrevPage /\ ~calls[d].body.pagination.hasNextPage

\* Upload c has answered 200 with sapId among its updated SAPs, and no other
\* upload has written the product of sapId.
Holds(c, sapId) ==
    /\ calls[c].kind = "upload" /\ calls[c].status = 200
    /\ \E i \in 1..Len(calls[c].body.updatedSaps) : calls[c].body.updatedSaps[i] = sapId
    /\ \A d \in Calls \ {c} : ~(calls[d].kind = "upload" /\ sapId \in calls[d].docs)

\* Request d answers in this step.
Answers(d) == calls[d].status = 0 /\ calls'[d].status # 0

\* C22: in the Firestore variant, once an upload has answered 200 for a SAP
\* with a product and until another upload writes that product, the product
\* holds the upload's imageId and the upload's object is in the bucket; GET
\* /product/:sap/image then answers 200 with that imageId, GET
\* /serve-image/<that imageId> answers 200 with the stored object, and GET
\* /product/:sap/image of a SAP without a product or of a product without an
\* imageid answers 404; each of them answers 500 instead where a call to a
\* store rejects.
C22_UploadThenFetch ==
    /\ [](\A c \in Calls : \A sapId \in ProductSaps :
            /\ (calls[c].kind = "upload" /\ calls[c].status = 200 /\ ProductExists(sapId)
                    /\ \E i \in 1..Len(calls[c].ids) : calls[c].ids[i] = sapId)
                => \E i \in 1..Len(calls[c].body.updatedSaps) :
                        calls[c].body.updatedSaps[i] = sapId
            /\ Holds(c, sapId)
                => /\ products[sapId].imageid = ImageId(c)
                   /\ calls[c].body.uuid = ImageId(c)
                   /\ calls[c].key \in s3)
    /\ [][\A d \in Calls :
            /\ (Answers(d) /\ calls'[d].kind = "product")
                => LET sapId == calls'[d].ids[1]
                   IN /\ (\E c \in Calls : sapId \in ProductSaps /\ Holds(c, sapId))
                          => \/ calls'[d].status = 500
                             \/ /\ calls'[d].status = 200
                                /\ \E c \in Calls :
                                      Holds(c, sapId) /\ calls'[d].body.uuid = ImageId(c)
                      /\ (~ProductExists(sapId) \/ products[sapId].imageid = NoUuid)
                          => calls'[d].status \in {404, 500}
            /\ (Answers(d) /\ calls'[d].kind = "serve")
                => \A c \in Calls :
                      ((\E sapId \in ProductSaps : Holds(c, sapId))
                            /\ calls'[d].target = ImageId(c))
                      => \/ calls'[d].status = 500
                         \/ /\ calls'[d].status = 200
                            /\ calls'[d].body.served = calls[c].key]_vars

\* An upload for SAP 1 has answered 200, and the image is served under its id.
C22_Witness ==
    \E c, d \in Calls :
        /\ Holds(c, 1)
        /\ calls[d].kind = "serve" /\ calls[d].status = 200
        /\ calls[d].target = ImageId(c) /\ calls[d].body.served = calls[c].key

\* The product of an upload that has answered 200 is asked for its image, and
\* one without an imageid, too.
C22_WitnessProduct ==
    \E c, d \in Calls :
        /\ Holds(c, 1)
        /\ calls[d].kind = "product" /\ calls[d].status = 200 /\ calls[d].ids = <<1>>
        /\ calls[d].body.uuid = ImageId(c)

\* C23: an upload of the batch client for a SAP ID without a product, once
\* the server has answered it with neither store failing, has resolved to a
\* failure with the error 'Product not found with given SAP'; once counted, it
\* is in the report's errors with its file, SAP ID and that message, and the
\* report counts it as failed, not as successful.
C23_MissingProductFails ==
    /\ \A j \in 1..Len(batch.uploads) :
        (/\ batch.uploads[j].settled
         /\ batch.uploads[j].error \notin UploadErrors
         /\ ~ProductExists(ParseIntStr(batch.sapIds[j])))
        => /\ ~batch.uploads[j].success
           /\ batch.uploads[j].error = "Product not found with given SAP"
    /\ \A k \in 1..Len(batch.past) : \A j \in 1..Len(batch.past[k].sapIds) :
        (/\ batch.past[k].uploads[j].error \notin UploadErrors
         /\ ~ProductExists(ParseIntStr(batch.past[k].sapIds[j])))
        => /\ \E e \in 1..Len(batch.results.errors) :
                batch.results.errors[e] =
                    [file |-> batch.past[k].file, sapId |-> batch.past[k].sapIds[j],
                     error |-> "Product not found with given SAP"]
           /\ batch.results.failed >= 1
           /\ batch.results.successful < batch.results.total

\* C24: processImageFolder ends for every value of concurrent that main can
\* hand to it: within a file every pass of the window loop moves i on towards
\* the number of uploads, and when the run has returned every started upload
\* has been counted once, total being the number of uploads started.
C24_WindowLoopEnds ==
    /\ [][(batch.pc = "window" /\ batch'.pc = "window" /\ batch'.i # batch.i)
            => batch'.i > batch.i]_vars
    /\ [](batch.pc = "returned" => batch.results.total = batch.started)

\* C25: under every interleaving of uploads with a bulk purge, every row the
\* purge has deleted has a key among the Objects of its s3.deleteObjects call;
\* an upload that has answered 200 with a key the purge did not submit, its
\* object still in the bucket, has lost none of its rows to the purge.
C25_PurgeDeletesSubmitted ==
    \A c \in Calls : calls[c].kind = "purge" =>
        /\ \A row \in calls[c].delRows : row.s3_key \in Range(calls[c].batchKeys)
        /\ \A u \in Calls :
            (/\ calls[u].kind = "upload" /\ calls[u].status = 200
             /\ calls[u].key \notin Range(calls[c].batchKeys)
             /\ calls[u].key \in s3)
            => calls[u].rows \cap calls[c].delRows = {}

\* C26: in every reachable state of the SQLite servers every row of the
\* images table has its article_id in the articles table.
C26_RowHasArticle ==
    variant \in {"multi", "single"}
        => \A i \in 1..Len(images) : images[i].article_id \in articles

\* The failures among the first n uploads of the file at hand, in order.
RECURSIVE Failed(_)
Failed(n) ==
    IF n = 0 THEN <<>>
    ELSE Failed(n - 1)
         \o (IF batch.uploads[n].success THEN <<>>
             ELSE <<[file |-> batch.file, sapId |-> batch.sapIds[n],
                     error |-> batch.uploads[n].error]>>)

\* The uploads of the file at hand whose results have been counted: those of
\* the windows passed, or those up to the failure the process left at.
Counted ==
    IF batch.pc = "exited" THEN FirstFailure
    ELSE IF batch.pc # "window" THEN 0
    ELSE IF batch.i > Len(batch.uploads) THEN Len(batch.uploads) ELSE batch.i

\* C27: at every point of a batch run total = successful + failed, the
\* errors list has failed entries, one per failed upload counted and in the
\* order of counting, it only grows at its end, and skipped is the number of
\* files the loop has come past that yielded no SAP ID.
C27_ReportConsistent ==
    /\ [](/\ batch.results.total = batch.results.successful + batch.results.failed
          /\ Len(batch.results.errors) = batch.results.failed
          /\ batch.results.total = AllUploads(batch.past, 1) + Counted
          /\ batch.results.errors = AllFailures(batch.past, 1) \o Failed(Counted)
          /\ batch.results.skipped =
                Cardinality({k \in 1..Len(batch.files) :
                                k < batch.f /\ extractSapIds(batch.files[k]) = <<>>}))
    /\ [][/\ Len(batch'.results.errors) >= Len(batch.results.errors)
          /\ SubSeq(batch'.results.errors, 1, Len(batch.results.errors)) = batch.results.errors
          /\ batch'.results.total >= batch.results.total
          /\ batch'.results.skipped >= batch.results.skipped]_vars

\* In the middle of a file, after a file without SAP IDs and one with: two
\* failures and a success counted, an upload of the file not yet counted.
C27_Witness ==
    /\ batch.pc = "window" /\ batch.i > 0 /\ batch.i < Len(batch.uploads)
    /\ batch.results.skipped = 1 /\ Len(batch.past) = 1
    /\ batch.results.failed = 2 /\ batch.results.successful >= 1
    /\ batch.results.errors[1].file # batch.results.errors[2].file
====
